---- MODULE Spec2Model ----
(***************************************************************************)
(* Frame streaming and draw batching of the miso renderer.                 *)
(*                                                                         *)
(*  - renderer.c : the frame controller (cmd_buffer, render_pass,          *)
(*                 swapchain_texture) and the draw entry points            *)
(*  - ui.c       : the UI geometry / text batches and UI_Flush             *)
(*  - nuklear_sdl3_gpu.h : the frame-sliced vertex / index upload stream   *)
(*  - the graphics device: command buffers in flight (environment)         *)
(***************************************************************************)
EXTENDS Integers, Sequences, FiniteSets, TLC

(***************************************************************************)
(* Bounds of the model                                                     *)
(***************************************************************************)
\* Largest number of frames the device may hold submitted and unfinished.
MaxDeviceDepth == 4
\* Draw entry points called per frame by the world hook.
MaxDrawsPerFrame == 1
\* Debug UI renders per frame of a game that renders several debug layers.
MaxRendersPerFrame == 2
\* Font atlases a text may draw from.
MaxAtlases == 9
\* Rectangles and texts batched between two flushes, flushes per frame.
MaxRects == 1
MaxTexts == 1
MaxFlushesPerFrame == 2
\* Bytes of one slot of the sprite instance stream, entries of the sprite
\* queue, and stream writes or sprite draws per frame.
SlotSizeBytes == 64
MaxQueueEntries == 3
MaxCoreCalls == 4
MaxWorldDraws == 2
\* Tiles of the map in each direction and building records of a world.
MapWidth == 2
MapHeight == 1
MaxBuildings == 2
\* Entity ids of the ECS.
MaxEntities == 3
\* Performance-counter ticks the simulation accumulator holds and a frame
\* adds, and events in the platform queue.
MaxAccumulator == 9
MaxDelta == 3
MaxEvents == 3

(***************************************************************************)
(* Program constants                                                       *)
(***************************************************************************)
NULL == 0
NK_SDL_GPU_FRAMES_IN_FLIGHT == 3
NK_SDL_GPU_STREAM_ALIGN == 16
SizeofNkVertex == 32
SizeofNkDrawIndex == 2
UI_TEXT_MAX_ATLASES == 8
UI_TEXT_INITIAL_CAPACITY == 2048
NK_SDL_GPU_VERTEX_SLOT_BYTES == SizeofNkVertex * 131072
NK_SDL_GPU_INDEX_SLOT_BYTES == SizeofNkDrawIndex * 524288

VARIABLES
    \* renderer.c
    cmd_buffer,          \* handle of the frame's command buffer, NULL if none
    render_pass,         \* NULL, or the command buffer the open pass was begun on
    swapchain_texture,   \* TRUE iff the cached swapchain texture is non-null
    \* miso_engine.c
    pc,                  \* "idle" | "world" | "debug" | "end": position inside miso_end_frame
    draws_left,          \* draw calls the hooks may still make this frame
    \* nuklear_sdl3_gpu.h
    frame_slot,
    stream_capacity_warned,
    \* graphics device
    cmd_nk_slot,         \* stream slot read by the commands recorded so far
    inflight,            \* submitted, unfinished frames: the slot each reads
    deviceDepth,         \* frames the device lets be in flight
    dev_log,             \* device calls made since the last BeginFrame
    \* observations
    begin_result,        \* outcome of the last Renderer_BeginFrame
    nk_last,             \* arguments and outcome of the last nk_sdl_gpu_render
    nk_upload,           \* regions of the last stream upload
    slot_history,        \* the slots the stream moved to, oldest first
    slot_at_begin,       \* frame_slot when the current frame began
    \* ui.c
    g_geometry_count,    \* g_geometry.count
    g_text,              \* g_text: vertex_count, index_count, atlases[0..atlas_count)
    \* observations of the UI batches
    batched_atlases,     \* atlases of the texts queued since the last flush
    batched_texts,       \* texts queued since the last flush
    ui_last,             \* the last call of the renderer / UI interface
    \* the streaming renderer: frame controller, UploadStream, sprite queue, stats
    fc_state,            \* "Idle" | "Recording"
    slot_index,          \* the active ring slot
    upload_stream,       \* slotBaseOffset, writeCursor, mapped
    sprite_queue,        \* SpriteBatch entries in insertion order
    cmdCount,            \* getFrameStats().queues[sprite].cmdCount
    calls_left,          \* stream writes and sprite draws the frame may still make
    \* observations of the streaming renderer
    submitted,           \* the sprite batches accepted this frame, in order
    dropped,             \* a write or draw of this frame was dropped
    alloc_last,          \* the last allocate: arguments and result
    \* miso_engine.c: miso_create
    boot,                \* position in miso_create and what exists so far
    \* miso_world.c, miso_buildings.c
    world,               \* MisoWorld: occupied, buildings, next_building_id
    \* ecs/sparse_set.c
    ecs,                 \* set: one SparseSet of the ECS; added: the value each add stored
    \* sparse_set.c
    sset,                \* set: one SparseSet; added; last: the last call
    \* miso_engine.c: the simulation clock
    miso_engine,         \* config, running, sim_accumulator; last: the last tick run
    \* miso_events.c
    events               \* queue: the platform event queue; last: the last poll,
                         \* with the events that remained when it returned

vars == <<cmd_buffer, render_pass, swapchain_texture, pc, draws_left,
          frame_slot, stream_capacity_warned, cmd_nk_slot, inflight,
          deviceDepth, dev_log, begin_result, nk_last, nk_upload, slot_history,
          slot_at_begin, g_geometry_count, g_text, batched_atlases, batched_texts,
          ui_last, fc_state, slot_index, upload_stream, sprite_queue, cmdCount,
          calls_left, submitted, dropped, alloc_last, boot, world, ecs, sset,
          miso_engine, events>>

\* the state outside the renderer: world, ECS, simulation clock, events
gameVars == <<world, ecs, sset, miso_engine, events>>

\* everything but boot
frameVars == <<cmd_buffer, render_pass, swapchain_texture, pc, draws_left,
               frame_slot, stream_capacity_warned, cmd_nk_slot, inflight,
               deviceDepth, dev_log, begin_result, nk_last, nk_upload, slot_history,
               slot_at_begin, g_geometry_count, g_text, batched_atlases,
               batched_texts, ui_last, fc_state, slot_index, upload_stream,
               sprite_queue, cmdCount, calls_left, submitted, dropped, alloc_last>>

coreVars == <<fc_state, slot_index, upload_stream, sprite_queue, cmdCount, calls_left,
              submitted, dropped, alloc_last>>

uiVars == <<g_geometry_count, g_text, batched_atlases, batched_texts, ui_last>>
engineVars == <<pc, draws_left, slot_at_begin>>
rendererVars == <<cmd_buffer, render_pass, swapchain_texture>>
nkVars == <<frame_slot, stream_capacity_warned, nk_upload, slot_history>>

NoSlot == 0 - 1
NoUpload == [slot |-> NoSlot, voff |-> 0, vsize |-> 0, ioff |-> 0, isize |-> 0,
             vused |-> 0, iused |-> 0]
NoCall == [call |-> "none", prev |-> "none", ops |-> 0, target |-> FALSE, k |-> 0,
           texts |-> 0, ranges |-> 0, indices |-> 0, draws |-> 0]
NoAlloc == [ok |-> FALSE, size |-> 0, align |-> 1, offset |-> 0, cursor_before |-> 0,
            called |-> FALSE]
NoRender == [nonempty |-> FALSE, within |-> FALSE, target |-> FALSE, mapped |-> FALSE,
             result |-> "none", prev |-> "none", slot_before |-> 0,
             warned_before |-> FALSE, warning |-> FALSE,
             log_before |-> 0, upload_before |-> NoUpload]

(***************************************************************************)
(* Helpers                                                                 *)
(***************************************************************************)
Count(log, op) == Cardinality({i \in 1..Len(log) : log[i] = op})

LastN(s, n) == IF Len(s) > n THEN SubSeq(s, Len(s) - n + 1, Len(s)) ELSE s

DrawOps == {"draw_sprites", "draw_lines", "draw_geometry", "draw_indexed_nk",
            "draw_ui_geometry", "draw_ui_text"}

(***************************************************************************)
(* nuklear_sdl3_gpu.h: the upload stream                                   *)
(***************************************************************************)
\* An align-up that forgets to clear the low bits.
nk_sdl_gpu_align_up_nomask(value, align) == value + (align - 1)

\* (value + mask) & ~mask with mask = align - 1, align a power of two: clearing
\* the low bits of the sum. Every value used here is below 2^24, so the Uint32
\* arithmetic of the source never wraps.
nk_sdl_gpu_align_up(value, align) ==
    LET sum == value + (align - 1)
    IN  sum - (sum % align)

vertex_slot_size == nk_sdl_gpu_align_up(NK_SDL_GPU_VERTEX_SLOT_BYTES, NK_SDL_GPU_STREAM_ALIGN)
index_slot_size == nk_sdl_gpu_align_up(NK_SDL_GPU_INDEX_SLOT_BYTES, NK_SDL_GPU_STREAM_ALIGN)
vertex_total_size == vertex_slot_size * NK_SDL_GPU_FRAMES_IN_FLIGHT
index_total_size == index_slot_size * NK_SDL_GPU_FRAMES_IN_FLIGHT

\* sizes nk_convert may report: nothing, one vertex, a full slot, one element
\* too many
VertSizes == {0, SizeofNkVertex, vertex_slot_size, vertex_slot_size + SizeofNkVertex}
IdxSizes == {0, index_slot_size, index_slot_size + SizeofNkDrawIndex}

\* A capacity test that forgets the index stream.
StreamFits_vertex_only(vert_size, idx_size) == ~(vert_size > vertex_slot_size)

\* the capacity test of nk_sdl_gpu_render, negated
StreamFits(vert_size, idx_size) ==
    ~(vert_size > vertex_slot_size \/ idx_size > index_slot_size)

\* A rotation over one slot fewer than the stream has.
NextSlot_short_cycle(slot) == (slot + 1) % (NK_SDL_GPU_FRAMES_IN_FLIGHT - 1)

\* A slot advance that never wraps.
NextSlot_no_wrap(slot) == slot + 1

\* frame_slot = (frame_slot + 1U) % NK_SDL_GPU_FRAMES_IN_FLIGHT
NextSlot(slot) == (slot + 1) % NK_SDL_GPU_FRAMES_IN_FLIGHT

SlotOffset(slot, slot_size) == slot * slot_size

\* An upload region that covers the stream from its start to the end of the
\* written bytes.
UploadRegion_from_buffer_start(offset, size) == [offset |-> 0, size |-> offset + size]

\* SDL_GPUBufferRegion dst_v / dst_i of the copy pass: the bytes just written
\* into the slot, at the slot's offset
UploadRegion(offset, size) == [offset |-> offset, size |-> size]

\* A stream that warns at every overflow.
LogsWarning_every_overflow(result, warned) == result = "dropped"

\* SDL_LogWarn("nuklear: UI stream exhausted ...") is reached on the overflow
\* path, inside if (!stream_capacity_warned)
LogsWarning(result, warned) == result = "dropped" /\ ~warned

\* What a call of nk_sdl_gpu_render was given and found, and what it returned
Observe(cmd, swapchain, vert_size, idx_size, mapOk, before, result) ==
    [nonempty |-> (vert_size > 0 /\ idx_size > 0),
     within |-> (vert_size <= vertex_slot_size /\ idx_size <= index_slot_size),
     target |-> (cmd # NULL /\ swapchain),
     mapped |-> mapOk,
     result |-> result, prev |-> nk_last.result,
     slot_before |-> frame_slot, warned_before |-> stream_capacity_warned,
     warning |-> LogsWarning(result, stream_capacity_warned),
     log_before |-> Len(dev_log \o before), upload_before |-> nk_upload]

\* nk_sdl_gpu_render(ctx, cmd, swapchain, AA); vert_size and idx_size are what
\* nk_convert produced, mapOk whether both transfer buffers could be mapped.
\* before and after are what the caller records on the command buffer around
\* the call (nothing when the function is called on its own).
nk_sdl_gpu_render(cmd, swapchain, vert_size, idx_size, mapOk, before, after) ==
    IF vert_size = 0 \/ idx_size = 0 THEN
        /\ nk_last' = Observe(cmd, swapchain, vert_size, idx_size, mapOk, before, "empty")
        /\ dev_log' = dev_log \o before \o after
        /\ UNCHANGED <<frame_slot, stream_capacity_warned, nk_upload, slot_history,
                       cmd_nk_slot>>
    ELSE IF cmd = NULL \/ ~swapchain THEN
        /\ nk_last' = Observe(cmd, swapchain, vert_size, idx_size, mapOk, before, "no_target")
        /\ dev_log' = dev_log \o before \o after
        /\ UNCHANGED <<frame_slot, stream_capacity_warned, nk_upload, slot_history,
                       cmd_nk_slot>>
    ELSE IF ~StreamFits(vert_size, idx_size) THEN
        /\ stream_capacity_warned' = TRUE
        /\ nk_last' = Observe(cmd, swapchain, vert_size, idx_size, mapOk, before, "dropped")
        /\ dev_log' = dev_log \o before \o after
        /\ UNCHANGED <<frame_slot, nk_upload, slot_history, cmd_nk_slot>>
    ELSE
        /\ stream_capacity_warned' = FALSE
        /\ frame_slot' = NextSlot(frame_slot)
        /\ slot_history' = LastN(Append(slot_history, frame_slot'),
                                 NK_SDL_GPU_FRAMES_IN_FLIGHT + 1)
        /\ IF ~mapOk THEN
              /\ nk_last' = Observe(cmd, swapchain, vert_size, idx_size, mapOk, before, "map_failed")
              /\ dev_log' = dev_log \o before \o after
              /\ UNCHANGED <<nk_upload, cmd_nk_slot>>
           ELSE
              /\ nk_last' = Observe(cmd, swapchain, vert_size, idx_size, mapOk, before, "uploaded")
              /\ LET vertex_offset == SlotOffset(frame_slot', vertex_slot_size)
                     index_offset_bytes == SlotOffset(frame_slot', index_slot_size)
                     dst_v == UploadRegion(vertex_offset, vert_size)
                     dst_i == UploadRegion(index_offset_bytes, idx_size)
                 IN  nk_upload' = [slot  |-> frame_slot',
                                   voff  |-> dst_v.offset, vsize |-> dst_v.size,
                                   ioff  |-> dst_i.offset, isize |-> dst_i.size,
                                   \* SDL_memcpy into the mapped slot
                                   vused |-> vert_size, iused |-> idx_size]
              /\ cmd_nk_slot' = frame_slot'
              /\ dev_log' = dev_log \o before
                                     \o <<"copy", "pass_begin_load",
                                          "draw_indexed_nk", "pass_end">>
                                     \o after

(***************************************************************************)
(* renderer.c: the frame controller                                        *)
(***************************************************************************)
\* SDL_AcquireGPUCommandBuffer hands out a handle the renderer holds no
\* reference to
FreshCmd == IF cmd_buffer = 1 \/ render_pass = 1 THEN 2 ELSE 1

\* SDL_SubmitGPUCommandBuffer of a frame that acquired a swapchain texture
SubmitFrame == inflight' = Append(inflight, cmd_nk_slot)

\* Outcomes of the two acquisitions of Renderer_BeginFrame. The device hands
\* out a swapchain texture only while fewer than deviceDepth frames are
\* in flight; a minimized window yields none either.
BeginOutcomes ==
    {"no_cmd", "acquire_failed", "no_surface"}
        \cup (IF Len(inflight) < deviceDepth THEN {"ok"} ELSE {})

Renderer_BeginFrame(outcome) ==
    /\ begin_result' = outcome
    /\ cmd_nk_slot' = NoSlot
    /\ IF outcome = "no_cmd" THEN
          /\ cmd_buffer' = NULL
          /\ dev_log' = <<>>
          /\ UNCHANGED <<render_pass, swapchain_texture>>
       ELSE
          /\ IF outcome = "acquire_failed" THEN
                /\ \E tex \in {swapchain_texture, FALSE} : swapchain_texture' = tex
                /\ dev_log' = <<"submit_empty">>
                /\ cmd_buffer' = NULL
                /\ UNCHANGED render_pass
             ELSE IF outcome = "no_surface" THEN
                /\ swapchain_texture' = FALSE
                /\ dev_log' = <<"submit_empty">>
                /\ cmd_buffer' = NULL
                /\ UNCHANGED render_pass
             ELSE
                /\ swapchain_texture' = TRUE
                /\ cmd_buffer' = FreshCmd
                /\ render_pass' = FreshCmd
                /\ dev_log' = <<"pass_begin_clear">>
    /\ UNCHANGED inflight

\* What a call of Renderer_BeginFrame hands back to its caller: the function
\* is declared and defined void, on every path
Renderer_BeginFrame_return(outcome) == "void"

Renderer_EndFrame ==
    /\ render_pass' = NULL
    /\ cmd_buffer' = NULL
    /\ dev_log' = dev_log
                    \o (IF render_pass # NULL THEN <<"pass_end">> ELSE <<>>)
                    \o (IF cmd_buffer # NULL THEN <<"submit">> ELSE <<>>)
    /\ IF cmd_buffer # NULL THEN SubmitFrame ELSE UNCHANGED inflight
    /\ UNCHANGED <<swapchain_texture, cmd_nk_slot, begin_result>>

Renderer_SetPresentMode ==
    /\ render_pass' = NULL
    /\ cmd_buffer' = NULL
    /\ dev_log' = dev_log
                    \o (IF render_pass # NULL THEN <<"pass_end">> ELSE <<>>)
                    \o (IF cmd_buffer # NULL THEN <<"submit">> ELSE <<>>)
    \* SDL_WaitForGPUIdle: nothing stays in flight
    /\ inflight' = <<>>
    /\ swapchain_texture' = FALSE
    /\ UNCHANGED <<cmd_nk_slot, begin_result>>

\* A Renderer_DrawSprites without its early returns.
Renderer_DrawSprites_no_pass_check(count) ==
    /\ render_pass' = cmd_buffer
    /\ dev_log' = dev_log \o <<"pass_end", "copy", "pass_begin_load", "draw_sprites">>
    /\ UNCHANGED <<cmd_buffer, swapchain_texture, cmd_nk_slot, inflight,
                   begin_result>>

\* count > 0 sprites of a non-null texture; pipeline and sampler exist after
\* Renderer_Init succeeded
Renderer_DrawSprites(count) ==
    /\ IF count = 0 \/ render_pass = NULL THEN
          UNCHANGED <<render_pass, dev_log>>
       ELSE
          /\ render_pass' = cmd_buffer
          /\ dev_log' = dev_log \o <<"pass_end", "copy", "pass_begin_load", "draw_sprites">>
    /\ UNCHANGED <<cmd_buffer, swapchain_texture, cmd_nk_slot, inflight,
                   begin_result>>

\* Renderer_DrawLine: one line segment; line_pipeline exists after
\* Renderer_Init succeeded. It ends the open pass, uploads the two vertices
\* in a copy pass of its own, begins a loading pass and draws.
Renderer_DrawLine ==
    /\ IF render_pass = NULL THEN
          UNCHANGED <<render_pass, dev_log>>
       ELSE
          /\ render_pass' = cmd_buffer
          /\ dev_log' = dev_log \o <<"pass_end", "copy", "pass_begin_load", "draw_lines">>
    /\ UNCHANGED <<cmd_buffer, swapchain_texture, cmd_nk_slot, inflight,
                   begin_result>>

\* Renderer_DrawGeometry(vertices, count): the same steps for count vertices
Renderer_DrawGeometry(count) ==
    /\ IF render_pass = NULL \/ count = 0 THEN
          UNCHANGED <<render_pass, dev_log>>
       ELSE
          /\ render_pass' = cmd_buffer
          /\ dev_log' = dev_log \o <<"pass_end", "copy", "pass_begin_load", "draw_geometry">>
    /\ UNCHANGED <<cmd_buffer, swapchain_texture, cmd_nk_slot, inflight,
                   begin_result>>

\* Repeat(op, n): n copies of op
RECURSIVE Repeat(_, _)
Repeat(op, n) == IF n = 0 THEN <<>> ELSE <<op>> \o Repeat(op, n - 1)

NonZero(seq) == Cardinality({i \in 1..Len(seq) : seq[i] # 0})

\* The guard of Renderer_FlushUIGeometry and Renderer_FlushUIText; the
\* pipelines and buffers exist after Renderer_Init succeeded
FlushUIRuns(count) == ~(~swapchain_texture \/ cmd_buffer = NULL \/ count = 0)

\* What Renderer_FlushUIGeometry(vertices, count) records when pass is the
\* render pass open at the call: it ends that pass, uploads, draws in a pass
\* of its own and begins the main pass again
FlushUIGeometryOps(pass, count) ==
    IF FlushUIRuns(count) THEN
        (IF pass # NULL THEN <<"pass_end">> ELSE <<>>)
            \o <<"copy", "pass_begin_load", "draw_ui_geometry", "pass_end",
                 "pass_begin_load">>
    ELSE <<>>

\* A text flush that binds the vertex and index buffers again for every
\* atlas range.
FlushUITextOps_bind_per_draw(pass, vertex_count, index_counts) ==
    IF FlushUIRuns(vertex_count) THEN
        (IF pass # NULL THEN <<"pass_end">> ELSE <<>>)
            \o <<"copy", "pass_begin_load">>
            \o Repeat("bind_ui_text_buffers", NonZero(index_counts))
            \o Repeat("draw_ui_text", NonZero(index_counts))
            \o <<"pass_end", "pass_begin_load">>
    ELSE <<>>

\* What Renderer_FlushUIText(vertices, vertex_count, indices, index_count,
\* atlases, atlas_count) records: the buffers bound once, then one indexed
\* draw per atlas range with indices; index_counts[i] is
\* atlases[i].index_count
FlushUITextOps(pass, vertex_count, index_counts) ==
    IF FlushUIRuns(vertex_count) THEN
        (IF pass # NULL THEN <<"pass_end">> ELSE <<>>)
            \o <<"copy", "pass_begin_load", "bind_ui_text_buffers">>
            \o Repeat("draw_ui_text", NonZero(index_counts))
            \o <<"pass_end", "pass_begin_load">>
    ELSE <<>>

\* The render pass held after either flush
PassAfterFlushUI(pass, count) == IF FlushUIRuns(count) THEN cmd_buffer ELSE pass

Renderer_FlushUIGeometry(count) ==
    /\ render_pass' = PassAfterFlushUI(render_pass, count)
    /\ dev_log' = dev_log \o FlushUIGeometryOps(render_pass, count)
    /\ UNCHANGED <<cmd_buffer, swapchain_texture, cmd_nk_slot, inflight, begin_result>>

Renderer_FlushUIText(vertex_count, index_counts) ==
    /\ render_pass' = PassAfterFlushUI(render_pass, vertex_count)
    /\ dev_log' = dev_log \o FlushUITextOps(render_pass, vertex_count, index_counts)
    /\ UNCHANGED <<cmd_buffer, swapchain_texture, cmd_nk_slot, inflight, begin_result>>

(***************************************************************************)
(* ui.c: the UI geometry and text batches                                  *)
(***************************************************************************)
\* g_text after UI_Init: nothing batched, both arrays allocated at their
\* initial capacity
EmptyTextBatch ==
    [vertex_count |-> 0, index_count |-> 0, atlases |-> <<>>,
     \* g_text.indices[0..index_count): the runs written, each with the atlas
     \* of its glyphs
     index_runs |-> <<>>,
     vertex_capacity |-> UI_TEXT_INITIAL_CAPACITY,
     index_capacity |-> UI_TEXT_INITIAL_CAPACITY]

\* One TTF_GPUAtlasDrawSequence: glyphs quads of one atlas texture, 4 vertices
\* and 6 indices each
Glyphs(atlas, glyphs) ==
    [atlas_texture |-> atlas, num_vertices |-> 4 * glyphs, num_indices |-> 6 * glyphs]

\* The shortest text that does not fit the vertex array of UI_Init
LongTextGlyphs == UI_TEXT_INITIAL_CAPACITY \div 4 + 1

\* A text whose k draw sequences come from the atlases 1..k
TextOfAtlases(k) == [i \in 1..k |-> Glyphs(i, 1)]

\* The draw data TTF_GetGPUTextDrawData may return: an empty text, 3 glyphs of
\* atlas 1 then 2 of atlas 2, an atlas that comes back after another one, and
\* texts that fill and overfill the atlas ranges
TextInputs ==
    { <<>>,
      <<Glyphs(1, 3), Glyphs(2, 2)>>,
      <<Glyphs(1, 1), Glyphs(2, 1), Glyphs(1, 1)>>,
      TextOfAtlases(UI_TEXT_MAX_ATLASES),
      TextOfAtlases(MaxAtlases) }

\* Long texts: one glyph, and one glyph more than the vertex array holds
\* after UI_Init
LongTextInputs == { <<Glyphs(1, 1)>>, <<Glyphs(1, LongTextGlyphs)>> }

AtlasesOf(text) == {text[i].atlas_texture : i \in 1..Len(text)}

\* A lookup that never finds the range of an atlas.
FindAtlasRange_none(atlases, atlas) == 0

\* The lookup loop of text_get_atlas_range: index of the range of this atlas,
\* 0 if there is none
FindAtlasRange(atlases, atlas) ==
    IF \E i \in 1..Len(atlases) : atlases[i].atlas = atlas
    THEN CHOOSE i \in 1..Len(atlases) :
            /\ atlases[i].atlas = atlas
            /\ \A j \in 1..(i - 1) : atlases[j].atlas # atlas
    ELSE 0

\* text_get_atlas_range(atlas) on batch t: the batch afterwards and the index
\* of the range returned, 0 for nullptr
text_get_atlas_range(t, atlas) ==
    LET found == FindAtlasRange(t.atlases, atlas)
    IN  IF found # 0 THEN [batch |-> t, range |-> found]
        ELSE IF Len(t.atlases) >= UI_TEXT_MAX_ATLASES THEN [batch |-> t, range |-> 0]
        ELSE [batch |-> [t EXCEPT !.atlases =
                            Append(@, [atlas |-> atlas,
                                       start_vertex |-> t.vertex_count,
                                       vertex_count |-> 0,
                                       start_index |-> t.index_count,
                                       index_count |-> 0])],
              range |-> Len(t.atlases) + 1]

\* The capacity an array of this capacity is reallocated to when needed
\* elements must fit: doubled until it holds them
RECURSIVE GrownCapacity(_, _)
GrownCapacity(capacity, needed) ==
    IF needed <= capacity THEN capacity
    ELSE GrownCapacity((IF capacity = 0 THEN UI_TEXT_INITIAL_CAPACITY ELSE capacity * 2),
                       needed)

\* text_ensure_capacity(add_verts, add_indices) on batch t: SDL_realloc of the
\* vertex and the index array when the addition does not fit
text_ensure_capacity(t, add_verts, add_indices) ==
    [t EXCEPT
        !.vertex_capacity = GrownCapacity(@, t.vertex_count + add_verts),
        !.index_capacity = GrownCapacity(@, t.index_count + add_indices)]

\* One iteration of the loop of UI_TextColored
AppendSequence(t, seq) ==
    LET r == text_get_atlas_range(t, seq.atlas_texture)
    IN  IF r.range = 0 THEN t
        ELSE [text_ensure_capacity(r.batch, seq.num_vertices, seq.num_indices) EXCEPT
                !.index_runs = Append(@, [atlas |-> seq.atlas_texture,
                                          start |-> r.batch.index_count,
                                          count |-> seq.num_indices]),
                !.vertex_count = @ + seq.num_vertices,
                !.index_count = @ + seq.num_indices,
                !.atlases[r.range].vertex_count = @ + seq.num_vertices,
                !.atlases[r.range].index_count = @ + seq.num_indices]

RECURSIVE AppendSequences(_, _)
AppendSequences(t, text) ==
    IF text = <<>> THEN t
    ELSE AppendSequences(AppendSequence(t, Head(text)), Tail(text))

IndexCounts(atlases) == [i \in 1..Len(atlases) |-> atlases[i].index_count]

(***************************************************************************)
(* The device finishes the oldest frame in flight                          *)
(***************************************************************************)
DeviceComplete ==
    /\ inflight # <<>>
    /\ inflight' = Tail(inflight)
    /\ nk_last' = NoRender
    /\ UNCHANGED <<rendererVars, pc, draws_left, nkVars,
                   cmd_nk_slot, deviceDepth, dev_log, begin_result, slot_at_begin>>
    /\ UNCHANGED uiVars
    /\ UNCHANGED coreVars
    /\ UNCHANGED <<boot, gameVars>>

(***************************************************************************)
(* miso_engine.c: miso_create, and Renderer_Init which it calls            *)
(***************************************************************************)
\* Nothing exists: miso_create has not been called
NoEngine ==
    [pc |-> "uncreated", engine |-> FALSE, sdl |-> FALSE, window |-> FALSE,
     gpu_device |-> FALSE, claimed |-> FALSE, present_mode |-> "none",
     made |-> {}, ui |-> FALSE, failed |-> "none",
     out_engine |-> "unset", result |-> "none"]

\* What Renderer_Init creates without looking at the result
UncheckedResources == {"instance_buffer", "sampler", "depth_texture"}

\* The pipelines Renderer_Init creates only if their shaders load
OptionalPipelines == {"text_pipeline", "line_pipeline", "geometry_pipeline"}

\* miso_create returned MISO_OK and every resource could be created
CreatedEngine ==
    [pc |-> "returned", engine |-> TRUE, sdl |-> TRUE, window |-> TRUE,
     gpu_device |-> TRUE, claimed |-> TRUE, present_mode |-> "mailbox",
     made |-> {"pipeline", "ttf", "text_engine"}
                \cup UncheckedResources \cup OptionalPipelines,
     ui |-> TRUE, failed |-> "none",
     out_engine |-> "engine", result |-> "MISO_OK"]

\* A Renderer_Init that reports success whatever happened.
Renderer_Init_return_always_true(b) == TRUE

\* What Renderer_Init returns: false from the step that failed, true at its end
Renderer_Init_return(b) == b.failed = "none"

\* miso_create up to SDL_calloc: out_engine checked and cleared, engine
\* allocated
miso_create_enter ==
    /\ boot.pc = "uncreated"
    /\ \E has_out \in BOOLEAN, alloc_ok \in BOOLEAN :
          boot' = IF ~has_out THEN
                      [boot EXCEPT !.pc = "returned", !.result = "MISO_ERR_INVALID_ARG"]
                  ELSE IF ~alloc_ok THEN
                      [boot EXCEPT !.pc = "returned", !.out_engine = "null",
                                   !.failed = "calloc",
                                   !.result = "MISO_ERR_OUT_OF_MEMORY"]
                  ELSE
                      [boot EXCEPT !.pc = "sdl_init", !.out_engine = "null",
                                   !.engine = TRUE]
    /\ UNCHANGED <<frameVars, gameVars>>

\* SDL_Init(SDL_INIT_VIDEO | SDL_INIT_EVENTS)
miso_create_SDL_Init ==
    /\ boot.pc = "sdl_init"
    /\ \E ok \in BOOLEAN :
          boot' = IF ok THEN [boot EXCEPT !.pc = "window", !.sdl = TRUE]
                  ELSE [boot EXCEPT !.pc = "returned", !.engine = FALSE,
                                    !.failed = "sdl_init", !.result = "MISO_ERR_INIT"]
    /\ UNCHANGED <<frameVars, gameVars>>

\* SDL_CreateWindow
miso_create_SDL_CreateWindow ==
    /\ boot.pc = "window"
    /\ \E ok \in BOOLEAN :
          boot' = IF ok THEN [boot EXCEPT !.pc = "device", !.window = TRUE]
                  ELSE [boot EXCEPT !.pc = "returned", !.sdl = FALSE, !.engine = FALSE,
                                    !.failed = "window", !.result = "MISO_ERR_INIT"]
    /\ UNCHANGED <<frameVars, gameVars>>

\* Renderer_Init, 1: SDL_CreateGPUDevice
Renderer_Init_device ==
    /\ boot.pc = "device"
    /\ \E ok \in BOOLEAN :
          boot' = IF ok THEN [boot EXCEPT !.pc = "claim", !.gpu_device = TRUE]
                  ELSE [boot EXCEPT !.pc = "finish", !.failed = "device"]
    /\ UNCHANGED <<frameVars, gameVars>>

\* Renderer_Init: SDL_ClaimWindowForGPUDevice
Renderer_Init_claim ==
    /\ boot.pc = "claim"
    /\ \E ok \in BOOLEAN :
          boot' = IF ok THEN [boot EXCEPT !.pc = "swapchain", !.claimed = TRUE]
                  ELSE [boot EXCEPT !.pc = "finish", !.failed = "claim"]
    /\ UNCHANGED <<frameVars, gameVars>>

\* Renderer_Init: SDL_SetGPUSwapchainParameters with MAILBOX, and with VSYNC
\* if that fails
Renderer_Init_swapchain ==
    /\ boot.pc = "swapchain"
    /\ \E mailbox_ok \in BOOLEAN, vsync_ok \in BOOLEAN :
          boot' = IF mailbox_ok THEN
                      [boot EXCEPT !.pc = "sprite_pipeline", !.present_mode = "mailbox"]
                  ELSE IF vsync_ok THEN
                      [boot EXCEPT !.pc = "sprite_pipeline", !.present_mode = "vsync"]
                  ELSE [boot EXCEPT !.pc = "finish", !.failed = "swapchain"]
    /\ UNCHANGED <<frameVars, gameVars>>

\* Renderer_Init, 2 and 3: the sprite shaders and the sprite pipeline
Renderer_Init_sprite_pipeline ==
    /\ boot.pc = "sprite_pipeline"
    /\ \E shaders_ok \in BOOLEAN, pipeline_ok \in BOOLEAN :
          boot' = IF ~shaders_ok THEN
                      [boot EXCEPT !.pc = "finish", !.failed = "shaders"]
                  ELSE IF ~pipeline_ok THEN
                      [boot EXCEPT !.pc = "finish", !.failed = "pipeline"]
                  ELSE [boot EXCEPT !.pc = "resources", !.made = @ \cup {"pipeline"}]
    /\ UNCHANGED <<frameVars, gameVars>>

\* Renderer_Init, 4 to 6: instance buffer, sampler and depth texture; none of
\* the results is looked at
Renderer_Init_resources ==
    /\ boot.pc = "resources"
    /\ \E got \in SUBSET UncheckedResources :
          boot' = [boot EXCEPT !.pc = "text", !.made = @ \cup got]
    /\ UNCHANGED <<frameVars, gameVars>>

\* Renderer_Init, 7: TTF_Init and TTF_CreateGPUTextEngine
Renderer_Init_text ==
    /\ boot.pc = "text"
    /\ \E ttf_ok \in BOOLEAN, engine_ok \in BOOLEAN :
          boot' = IF ~ttf_ok THEN
                      [boot EXCEPT !.pc = "finish", !.failed = "ttf"]
                  ELSE IF ~engine_ok THEN
                      [boot EXCEPT !.pc = "finish", !.failed = "text_engine",
                                   !.made = @ \cup {"ttf"}]
                  ELSE [boot EXCEPT !.pc = "ui_pipelines",
                                    !.made = @ \cup {"ttf", "text_engine"}]
    /\ UNCHANGED <<frameVars, gameVars>>

\* Renderer_Init, 8: the text, line and geometry pipelines, each created only
\* if both of its shaders loaded; then return true
Renderer_Init_ui_pipelines ==
    /\ boot.pc = "ui_pipelines"
    /\ \E got \in SUBSET OptionalPipelines :
          boot' = [boot EXCEPT !.pc = "finish", !.made = @ \cup got]
    /\ UNCHANGED <<frameVars, gameVars>>

\* miso_create after Renderer_Init has returned: tear down and MISO_ERR_GPU if
\* it returned false; otherwise Renderer_SetVSync, UI_Init and the camera
\* array, whose failure shuts the UI and the renderer down again
miso_create_finish ==
    /\ boot.pc = "finish"
    /\ \E cameras_ok \in BOOLEAN :
          boot' = IF ~Renderer_Init_return(boot) THEN
                      [boot EXCEPT !.pc = "returned", !.window = FALSE, !.sdl = FALSE,
                                   !.engine = FALSE, !.result = "MISO_ERR_GPU"]
                  ELSE IF ~cameras_ok THEN
                      [boot EXCEPT !.pc = "returned", !.failed = "cameras",
                                   !.gpu_device = FALSE, !.claimed = FALSE,
                                   !.present_mode = "none", !.made = {},
                                   !.window = FALSE, !.sdl = FALSE, !.engine = FALSE,
                                   !.result = "MISO_ERR_OUT_OF_MEMORY"]
                  ELSE
                      [boot EXCEPT !.pc = "returned", !.ui = TRUE,
                                   !.out_engine = "engine", !.result = "MISO_OK"]
    /\ UNCHANGED <<frameVars, gameVars>>

\* miso_destroy of an engine that miso_create returned: UI_Shutdown,
\* Renderer_Shutdown, SDL_DestroyWindow, SDL_Quit, SDL_free
miso_destroy ==
    /\ boot.pc = "returned"
    /\ boot.out_engine = "engine"
    /\ boot' = [NoEngine EXCEPT !.pc = "destroyed"]
    /\ UNCHANGED <<frameVars, gameVars>>

(***************************************************************************)
(* miso_engine.c: miso_end_frame drives one frame                          *)
(*   Renderer_BeginFrame; on_render_world; on_render_ui; on_render_debug;  *)
(*   Renderer_EndFrame                                                     *)
(***************************************************************************)
(* miso_world.c and miso_buildings.c: the occupancy grid and the building   *)
(* records of one MisoWorld.                                                *)
(***************************************************************************)
\* miso_world_create: a zeroed grid of width_tiles * height_tiles tiles, no
\* building records, ids starting at 1. last observes the most recent call.
miso_world_create ==
    [occupied |-> [i \in 0..(MapWidth * MapHeight - 1) |-> FALSE],
     buildings |-> <<>>,
     building_capacity |-> 0,
     next_building_id |-> 1,
     last |-> [op |-> "none", result |-> "none", changed |-> FALSE]]

miso__in_bounds(tx, ty) == tx >= 0 /\ ty >= 0 /\ tx < MapWidth /\ ty < MapHeight

miso__tile_index(tx, ty) == ty * MapWidth + tx

miso_world_is_tile_free(w, tx, ty) ==
    IF ~miso__in_bounds(tx, ty) THEN FALSE ELSE ~w.occupied[miso__tile_index(tx, ty)]

\* The placement check with every tile taken as free
miso_building_can_place_ignoring_occupancy(w, tx, ty, footprint_w, footprint_h) ==
    IF footprint_w <= 0 \/ footprint_h <= 0 THEN "MISO_PLACE_RULE_VIOLATION"
    ELSE IF \E x \in 0..(footprint_w - 1), y \in 0..(footprint_h - 1) :
                ~miso__in_bounds(tx + x, ty + y)
         THEN "MISO_PLACE_OUT_OF_BOUNDS"
         ELSE "MISO_PLACE_OK"

\* miso_building_can_place: scans the footprint row by row and returns at
\* the first tile that is out of bounds or not free
miso_building_can_place(w, tx, ty, footprint_w, footprint_h) ==
    IF footprint_w <= 0 \/ footprint_h <= 0 THEN "MISO_PLACE_RULE_VIOLATION"
    ELSE LET X(k) == tx + (k % footprint_w)
             Y(k) == ty + (k \div footprint_w)
             Scan == 0..(footprint_w * footprint_h - 1)
             Bad == {k \in Scan : ~miso_world_is_tile_free(w, X(k), Y(k))}
         IN  IF Bad = {} THEN "MISO_PLACE_OK"
             ELSE LET k == CHOOSE b \in Bad : \A c \in Bad : b <= c
                  IN  IF ~miso__in_bounds(X(k), Y(k)) THEN "MISO_PLACE_OUT_OF_BOUNDS"
                      ELSE "MISO_PLACE_BLOCKED"

\* miso_world_set_tile_occupied over the tiles of a footprint
SetFootprintOccupied(occ, tx, ty, footprint_w, footprint_h, value) ==
    [i \in DOMAIN occ |->
        IF \E x \in 0..(footprint_w - 1), y \in 0..(footprint_h - 1) :
               miso__in_bounds(tx + x, ty + y) /\ i = miso__tile_index(tx + x, ty + y)
        THEN value ELSE occ[i]]

\* The world after a call: the call's result and whether the grid or the
\* records differ from before are observed in last
WorldAfter(before, after, op, result) ==
    [after EXCEPT !.last = [op |-> op, result |-> result,
                            changed |-> \/ after.occupied # before.occupied
                                        \/ after.buildings # before.buildings
                                        \/ after.next_building_id # before.next_building_id]]

\* miso_building_place; realloc_ok is the outcome of SDL_realloc when
\* miso__ensure_building_capacity has to grow the records
miso_building_place(tx, ty, footprint_w, footprint_h, realloc_ok) ==
    /\ \/ Len(world.buildings) < MaxBuildings
       \/ miso_building_can_place(world, tx, ty, footprint_w, footprint_h)
              # "MISO_PLACE_OK"
    /\ world' =
         IF footprint_w <= 0 \/ footprint_h <= 0
         THEN WorldAfter(world, world, "place", "MISO_ERR_INVALID_ARG")
         ELSE IF miso_building_can_place(world, tx, ty, footprint_w, footprint_h)
                     # "MISO_PLACE_OK"
         THEN WorldAfter(world, world, "place", "MISO_ERR_INVALID_ARG")
         ELSE IF Len(world.buildings) >= world.building_capacity /\ ~realloc_ok
         THEN WorldAfter(world, world, "place", "MISO_ERR_OUT_OF_MEMORY")
         ELSE LET record == [id |-> world.next_building_id, tx |-> tx, ty |-> ty,
                             footprint_w |-> footprint_w, footprint_h |-> footprint_h,
                             active |-> TRUE]
                  capacity == IF Len(world.buildings) < world.building_capacity
                              THEN world.building_capacity
                              ELSE IF world.building_capacity = 0 THEN 64
                                   ELSE world.building_capacity * 2
              IN  WorldAfter(world,
                      [world EXCEPT
                          !.buildings = Append(@, record),
                          !.building_capacity = capacity,
                          !.next_building_id = @ + 1,
                          !.occupied = SetFootprintOccupied(@, tx, ty, footprint_w,
                                                            footprint_h, TRUE)],
                      "place", "MISO_OK")
    /\ UNCHANGED <<frameVars, boot, ecs, sset, miso_engine, events>>

\* miso_building_remove: the first active record with the id
miso_building_remove(building_id) ==
    /\ world' =
         IF building_id = 0
         THEN WorldAfter(world, world, "remove", "MISO_ERR_INVALID_ARG")
         ELSE LET Found == {i \in 1..Len(world.buildings) :
                               world.buildings[i].active
                               /\ world.buildings[i].id = building_id}
              IN  IF Found = {}
                  THEN WorldAfter(world, world, "remove", "MISO_ERR_NOT_FOUND")
                  ELSE LET i == CHOOSE f \in Found : \A g \in Found : f <= g
                           record == world.buildings[i]
                       IN  WorldAfter(world,
                               [world EXCEPT
                                   !.occupied = SetFootprintOccupied(@, record.tx,
                                       record.ty, record.footprint_w,
                                       record.footprint_h, FALSE),
                                   !.buildings[i].active = FALSE],
                               "remove", "MISO_OK")
    /\ UNCHANGED <<frameVars, boot, ecs, sset, miso_engine, events>>

(***************************************************************************)
(* ecs/sparse_set.c: the sparse set of the ECS, with dense_entities        *)
(***************************************************************************)
\* Entity ids are 0..ENTITY_MAX-1; ENTITY_MAX in sparse[] means no component
ENTITY_MAX == MaxEntities

\* The arrays after SDL_realloc to a capacity: the old cells, then
\* unwritten ones
Realloc(array, capacity) ==
    [i \in 0..(capacity - 1) |-> IF i \in DOMAIN array THEN array[i] ELSE -1]

\* ss_create(component_size, initial_capacity)
ecs_ss_create(initial_capacity) ==
    [dense |-> Realloc(<<>>, initial_capacity),
     dense_entities |-> Realloc(<<>>, initial_capacity),
     sparse |-> [e \in 0..(ENTITY_MAX - 1) |-> ENTITY_MAX],
     size |-> 0,
     capacity |-> initial_capacity]

\* ss_add: nothing for an entity that has a component; else grows the two
\* arrays when full and appends the component and its entity
ecs_ss_add(set, e, component) ==
    IF set.sparse[e] # ENTITY_MAX THEN set
    ELSE LET capacity == IF set.size >= set.capacity THEN set.capacity * 2
                         ELSE set.capacity
         IN  [dense |-> [Realloc(set.dense, capacity) EXCEPT ![set.size] = component],
              dense_entities |-> [Realloc(set.dense_entities, capacity)
                                     EXCEPT ![set.size] = e],
              sparse |-> [set.sparse EXCEPT ![e] = set.size],
              size |-> set.size + 1,
              capacity |-> capacity]

\* ss_remove that moves the last component but not its entity
ecs_ss_remove_no_fixup(set, e) ==
    IF set.sparse[e] = ENTITY_MAX THEN set
    ELSE LET removed_index == set.sparse[e]
             last_index == set.size - 1
         IN  [set EXCEPT !.dense[removed_index] = set.dense[last_index],
                         !.sparse[e] = ENTITY_MAX,
                         !.size = @ - 1]

\* ss_remove: moves the last component and its entity into the removed slot
ecs_ss_remove(set, e) ==
    IF set.sparse[e] = ENTITY_MAX THEN set
    ELSE LET removed_index == set.sparse[e]
             last_index == set.size - 1
             moved_entity == set.dense_entities[last_index]
             moved == IF removed_index # last_index
                      THEN [set EXCEPT !.dense[removed_index] = set.dense[last_index],
                                       !.sparse[moved_entity] = removed_index,
                                       !.dense_entities[removed_index] = moved_entity]
                      ELSE set
         IN  [moved EXCEPT !.sparse[e] = ENTITY_MAX, !.size = @ - 1]

ecs_ss_has(set, e) == set.sparse[e] # ENTITY_MAX

\* ss_get: the component at sparse[e], NULL for an entity without one
ecs_ss_get(set, e) == IF ecs_ss_has(set, e) THEN set.dense[set.sparse[e]] ELSE NULL

(***************************************************************************)
(* sparse_set.c: the sparse set without dense_entities                     *)
(***************************************************************************)
\* ss_create(component_size, initial_capacity)
ss_create(initial_capacity) ==
    [dense |-> Realloc(<<>>, initial_capacity),
     sparse |-> [e \in 0..(ENTITY_MAX - 1) |-> ENTITY_MAX],
     size |-> 0,
     capacity |-> initial_capacity]

\* ss_add: nothing for an entity that has a component; else grows dense
\* when full and appends the component
ss_add(set, e, component) ==
    IF set.sparse[e] # ENTITY_MAX THEN set
    ELSE LET capacity == IF set.size >= set.capacity THEN set.capacity * 2
                         ELSE set.capacity
         IN  [dense |-> [Realloc(set.dense, capacity) EXCEPT ![set.size] = component],
              sparse |-> [set.sparse EXCEPT ![e] = set.size],
              size |-> set.size + 1,
              capacity |-> capacity]

\* ss_remove: copies the last component into the slot of e and clears
\* sparse[e]; no other entry of sparse[] is written
ss_remove(set, e) ==
    IF set.sparse[e] = ENTITY_MAX THEN set
    ELSE LET index == set.sparse[e]
         IN  [set EXCEPT !.dense[index] = set.dense[set.size - 1],
                         !.sparse[e] = ENTITY_MAX,
                         !.size = @ - 1]

ss_has(set, e) == set.sparse[e] # ENTITY_MAX

\* ss_get: the component at sparse[e], NULL for an entity without one
ss_get(set, e) == IF ss_has(set, e) THEN set.dense[set.sparse[e]] ELSE NULL

(***************************************************************************)
(* miso_engine.c: the fixed-step simulation clock. Time is counted in ticks *)
(* of the performance counter.                                              *)
(***************************************************************************)
\* SDL_GetPerformanceFrequency(): counter ticks per second
PerfFrequency == 20

\* The engine miso_create returns for a config: a sim_tick_hz or
\* max_sim_steps_per_frame that is not positive becomes 20 or 8
miso_create_engine(sim_tick_hz, max_sim_steps_per_frame) ==
    [config |-> [sim_tick_hz |-> IF sim_tick_hz <= 0 THEN 20 ELSE sim_tick_hz,
                 max_sim_steps_per_frame |->
                     IF max_sim_steps_per_frame <= 0 THEN 8
                     ELSE max_sim_steps_per_frame],
     running |-> TRUE,
     sim_accumulator |-> 0,
     last |-> [call |-> "none", running |-> FALSE, before |-> 0, after |-> 0,
               ticks |-> <<>>]]

\* The loop of miso_run_simulation_ticks with no limit on the steps
RECURSIVE RunTicks_uncapped(_, _, _, _)
RunTicks_uncapped(accumulator, steps, fixed_step, max_steps) ==
    IF accumulator >= fixed_step
    THEN <<[dt |-> fixed_step, accumulator |-> accumulator]>>
         \o RunTicks_uncapped(accumulator - fixed_step, steps + 1, fixed_step, max_steps)
    ELSE <<>>

\* The loop of miso_run_simulation_ticks: the ticks it runs, each with the
\* dt it passes to tick_fn and on_sim_tick and the accumulator it ran at
RECURSIVE RunTicks(_, _, _, _)
RunTicks(accumulator, steps, fixed_step, max_steps) ==
    IF accumulator >= fixed_step /\ steps < max_steps
    THEN <<[dt |-> fixed_step, accumulator |-> accumulator]>>
         \o RunTicks(accumulator - fixed_step, steps + 1, fixed_step, max_steps)
    ELSE <<>>

\* miso_begin_frame: adds the counter ticks since the last frame; returns
\* false and changes nothing when the engine is not running
miso_begin_frame(delta) ==
    /\ miso_engine.sim_accumulator + delta <= MaxAccumulator
    /\ miso_engine' = IF ~miso_engine.running THEN miso_engine
                      ELSE [miso_engine EXCEPT !.sim_accumulator = @ + delta]
    /\ UNCHANGED <<frameVars, boot, world, ecs, sset, events>>

\* miso_run_simulation_ticks
miso_run_simulation_ticks ==
    /\ miso_engine' =
         IF ~miso_engine.running
         THEN [miso_engine EXCEPT !.last =
                  [call |-> "miso_run_simulation_ticks", running |-> FALSE,
                   before |-> miso_engine.sim_accumulator,
                   after |-> miso_engine.sim_accumulator, ticks |-> <<>>]]
         ELSE LET fixed_step == PerfFrequency \div miso_engine.config.sim_tick_hz
                  ticks == RunTicks(miso_engine.sim_accumulator, 0, fixed_step,
                                    miso_engine.config.max_sim_steps_per_frame)
                  left == miso_engine.sim_accumulator - Len(ticks) * fixed_step
                  after == IF left < 0 THEN 0 ELSE left
              IN  [miso_engine EXCEPT
                      !.sim_accumulator = after,
                      !.last = [call |-> "miso_run_simulation_ticks",
                                running |-> TRUE,
                                before |-> miso_engine.sim_accumulator,
                                after |-> after, ticks |-> ticks]]
    /\ UNCHANGED <<frameVars, boot, world, ecs, sset, events>>

\* miso__engine_request_quit
miso__engine_request_quit ==
    /\ miso_engine' = [miso_engine EXCEPT !.running = FALSE]
    /\ UNCHANGED <<frameVars, boot, world, ecs, sset, events>>

(***************************************************************************)
(* miso_events.c                                                           *)
(***************************************************************************)
\* The platform queues an event
SDL_PushEvent(type) ==
    /\ Len(events.queue) < MaxEvents
    /\ events' = [events EXCEPT !.queue = Append(@, type)]
    /\ UNCHANGED <<frameVars, boot, world, ecs, sset, miso_engine>>

\* miso_poll_event: false when SDL_PollEvent has no event; else takes the
\* first event, requests quit for SDL_EVENT_QUIT, and returns false for an
\* event type outside its switch
miso_poll_event ==
    /\ events' =
         IF events.queue = <<>>
         THEN [events EXCEPT !.last = [called |-> TRUE, returned |-> FALSE,
                                       type |-> "none", remaining |-> 0]]
         ELSE [queue |-> Tail(events.queue),
               last |-> [called |-> TRUE,
                         returned |-> Head(events.queue)
                                         \in {"SDL_EVENT_QUIT", "SDL_EVENT_KEY_DOWN"},
                         type |-> Head(events.queue),
                         remaining |-> Len(Tail(events.queue))]]
    /\ miso_engine' =
         IF events.queue # <<>> /\ Head(events.queue) = "SDL_EVENT_QUIT"
         THEN [miso_engine EXCEPT !.running = FALSE]
         ELSE miso_engine
    /\ UNCHANGED <<frameVars, boot, world, ecs, sset>>

\* the state outside the renderer when the engine has been created
GameInit ==
    /\ world = miso_world_create
    /\ ecs = [set |-> ecs_ss_create(2), added |-> [e \in 0..(ENTITY_MAX - 1) |-> NULL]]
    /\ sset = [set |-> ss_create(2), added |-> [e \in 0..(ENTITY_MAX - 1) |-> NULL],
               last |-> "none"]
    /\ events = [queue |-> <<>>,
                 last |-> [called |-> FALSE, returned |-> FALSE, type |-> "none",
                           remaining |-> 0]]

(***************************************************************************)
\* The static state of renderer.c, nuklear_sdl3_gpu.h and ui.c before the
\* first frame
FrameInit ==
    /\ cmd_buffer = NULL
    /\ render_pass = NULL
    /\ swapchain_texture = FALSE
    /\ pc = "idle"
    /\ draws_left = 0
    /\ frame_slot = 0
    /\ stream_capacity_warned = FALSE
    /\ cmd_nk_slot = NoSlot
    /\ inflight = <<>>
    /\ deviceDepth \in 1..MaxDeviceDepth
    /\ dev_log = <<>>
    /\ begin_result = "none"
    /\ nk_last = NoRender
    /\ nk_upload = NoUpload
    /\ slot_history = <<>>
    /\ slot_at_begin = 0
    /\ g_geometry_count = 0
    /\ g_text = EmptyTextBatch
    /\ batched_atlases = {}
    /\ batched_texts = 0
    /\ ui_last = NoCall
    /\ fc_state = "Idle"
    /\ slot_index = 0
    /\ upload_stream = [slotBaseOffset |-> 0, writeCursor |-> 0, mapped |-> FALSE]
    /\ sprite_queue = <<>>
    /\ cmdCount = 0
    /\ calls_left = 0
    /\ submitted = <<>>
    /\ dropped = FALSE
    /\ alloc_last = NoAlloc
    /\ GameInit

\* miso_create has returned MISO_OK
Init == FrameInit /\ boot = CreatedEngine /\ miso_engine = miso_create_engine(0, 0)

EngineBeginFrame ==
    /\ pc = "idle"
    /\ \E outcome \in BeginOutcomes : Renderer_BeginFrame(outcome)
    /\ pc' = "world"
    /\ draws_left' = MaxDrawsPerFrame
    /\ slot_at_begin' = frame_slot
    /\ nk_last' = NoRender
    /\ nk_upload' = NoUpload
    /\ UNCHANGED <<frame_slot, stream_capacity_warned, slot_history, deviceDepth>>
    /\ UNCHANGED uiVars
    /\ UNCHANGED coreVars
    /\ UNCHANGED <<boot, gameVars>>

\* on_render_world draws the visible sprites, one Renderer_DrawSprites per
\* texture
WorldHookDrawSprites ==
    /\ pc = "world"
    /\ draws_left > 0
    /\ \E count \in {0, 1} : Renderer_DrawSprites(count)
    /\ draws_left' = draws_left - 1
    /\ nk_last' = NoRender
    /\ UNCHANGED <<pc, nkVars, deviceDepth, slot_at_begin>>
    /\ UNCHANGED uiVars
    /\ UNCHANGED coreVars
    /\ UNCHANGED <<boot, gameVars>>

\* on_render_ui, entered when on_render_world has returned, ends in UI_Flush,
\* which hands the batched rectangles (6 vertices each) to the renderer
UIHookFlushGeometry ==
    /\ pc = "world"
    /\ \E count \in {0, 6} : Renderer_FlushUIGeometry(count)
    /\ pc' = "debug"
    /\ nk_last' = NoRender
    /\ UNCHANGED <<draws_left, nkVars, deviceDepth, slot_at_begin>>
    /\ UNCHANGED uiVars
    /\ UNCHANGED coreVars
    /\ UNCHANGED <<boot, gameVars>>

\* Renderer_EndRenderPass(): what it records when a pass is open
Renderer_EndRenderPass == IF render_pass # NULL THEN <<"pass_end">> ELSE <<>>

\* Renderer_ResumeRenderPass(): a pass that loads the swapchain contents
Renderer_ResumeRenderPass == <<"pass_begin_load">>

\* DebugUI_Render(): without a command buffer or a swapchain texture it only
\* clears the widget state; otherwise it ends the renderer's pass, lets
\* nk_sdl_gpu_render record, and resumes the renderer's pass
DebugUI_Render(vert_size, idx_size, mapOk) ==
    IF cmd_buffer = NULL \/ ~swapchain_texture THEN
        /\ nk_last' = NoRender
        /\ UNCHANGED <<rendererVars, nkVars, cmd_nk_slot, dev_log>>
    ELSE
        /\ nk_sdl_gpu_render(cmd_buffer, swapchain_texture, vert_size, idx_size, mapOk,
                             Renderer_EndRenderPass, Renderer_ResumeRenderPass)
        /\ render_pass' = cmd_buffer
        /\ UNCHANGED <<cmd_buffer, swapchain_texture>>

\* on_render_debug calls DebugUI_Render once per frame
DebugHookRender ==
    /\ pc = "debug"
    /\ \E vert_size \in VertSizes, idx_size \in IdxSizes, mapOk \in BOOLEAN :
          DebugUI_Render(vert_size, idx_size, mapOk)
    /\ pc' = "end"
    /\ UNCHANGED <<draws_left, inflight, deviceDepth, begin_result, slot_at_begin>>
    /\ UNCHANGED uiVars
    /\ UNCHANGED coreVars
    /\ UNCHANGED <<boot, gameVars>>

EngineEndFrame ==
    /\ pc = "end"
    /\ Renderer_EndFrame
    /\ pc' = "idle"
    /\ nk_last' = NoRender
    /\ UNCHANGED <<draws_left, nkVars, deviceDepth, slot_at_begin>>
    /\ UNCHANGED uiVars
    /\ UNCHANGED coreVars
    /\ UNCHANGED <<boot, gameVars>>

\* testbed_game_on_event: the V key toggles vsync between frames
EventSetVSync ==
    /\ pc = "idle"
    /\ Renderer_SetPresentMode
    /\ nk_last' = NoRender
    /\ UNCHANGED <<pc, draws_left, nkVars, deviceDepth, slot_at_begin>>
    /\ UNCHANGED uiVars
    /\ UNCHANGED coreVars
    /\ UNCHANGED <<boot, gameVars>>

Next ==
    \/ EngineBeginFrame
    \/ WorldHookDrawSprites
    \/ UIHookFlushGeometry
    \/ DebugHookRender
    \/ EngineEndFrame
    \/ EventSetVSync
    \/ DeviceComplete

Spec == Init /\ [][Next]_vars

(***************************************************************************)
(* A game whose debug hook renders several debug UI layers per frame:      *)
(* Renderer_BeginFrame; DebugUI_Render ...; Renderer_EndFrame              *)
(***************************************************************************)
LayersBeginFrame ==
    /\ pc = "idle"
    /\ \E outcome \in BeginOutcomes : Renderer_BeginFrame(outcome)
    /\ pc' = "debug"
    /\ draws_left' = MaxRendersPerFrame
    /\ slot_at_begin' = frame_slot
    /\ nk_last' = NoRender
    /\ nk_upload' = NoUpload
    /\ UNCHANGED <<frame_slot, stream_capacity_warned, slot_history, deviceDepth>>
    /\ UNCHANGED uiVars
    /\ UNCHANGED coreVars
    /\ UNCHANGED <<boot, gameVars>>

LayersRender ==
    /\ pc = "debug"
    /\ draws_left > 0
    /\ \E vert_size \in VertSizes, idx_size \in IdxSizes, mapOk \in BOOLEAN :
          DebugUI_Render(vert_size, idx_size, mapOk)
    /\ draws_left' = draws_left - 1
    /\ UNCHANGED <<pc, inflight, deviceDepth, begin_result, slot_at_begin>>
    /\ UNCHANGED uiVars
    /\ UNCHANGED coreVars
    /\ UNCHANGED <<boot, gameVars>>

LayersEndFrame ==
    /\ pc = "debug"
    /\ Renderer_EndFrame
    /\ pc' = "idle"
    /\ nk_last' = NoRender
    /\ UNCHANGED <<draws_left, nkVars, deviceDepth, slot_at_begin>>
    /\ UNCHANGED uiVars
    /\ UNCHANGED coreVars
    /\ UNCHANGED <<boot, gameVars>>

NextLayers ==
    \/ LayersBeginFrame
    \/ LayersRender
    \/ LayersEndFrame
    \/ DeviceComplete

SpecLayers == Init /\ [][NextLayers]_vars

(***************************************************************************)
(* A game whose world hook draws sprites, lines and world geometry in an   *)
(* order of its choosing (testbed_game_on_render_world draws the tilemap   *)
(* and the buildings, then the tile highlight lines, then the wireframes): *)
(* Renderer_BeginFrame; Renderer_DrawSprites | Renderer_DrawLine |         *)
(* Renderer_DrawGeometry ...; Renderer_EndFrame                            *)
(***************************************************************************)
WorldBeginFrame ==
    /\ pc = "idle"
    /\ \E outcome \in BeginOutcomes : Renderer_BeginFrame(outcome)
    /\ pc' = "world"
    /\ draws_left' = MaxWorldDraws
    /\ slot_at_begin' = frame_slot
    /\ nk_last' = NoRender
    /\ nk_upload' = NoUpload
    /\ UNCHANGED <<frame_slot, stream_capacity_warned, slot_history, deviceDepth>>
    /\ UNCHANGED uiVars
    /\ UNCHANGED coreVars
    /\ UNCHANGED <<boot, gameVars>>

WorldDrawSprites ==
    /\ pc = "world"
    /\ draws_left > 0
    /\ \E count \in {0, 1} : Renderer_DrawSprites(count)
    /\ draws_left' = draws_left - 1
    /\ UNCHANGED <<pc, nkVars, nk_last, deviceDepth, slot_at_begin>>
    /\ UNCHANGED uiVars
    /\ UNCHANGED coreVars
    /\ UNCHANGED <<boot, gameVars>>

WorldDrawLine ==
    /\ pc = "world"
    /\ draws_left > 0
    /\ Renderer_DrawLine
    /\ draws_left' = draws_left - 1
    /\ UNCHANGED <<pc, nkVars, nk_last, deviceDepth, slot_at_begin>>
    /\ UNCHANGED uiVars
    /\ UNCHANGED coreVars
    /\ UNCHANGED <<boot, gameVars>>

WorldDrawGeometry ==
    /\ pc = "world"
    /\ draws_left > 0
    /\ \E count \in {0, 3} : Renderer_DrawGeometry(count)
    /\ draws_left' = draws_left - 1
    /\ UNCHANGED <<pc, nkVars, nk_last, deviceDepth, slot_at_begin>>
    /\ UNCHANGED uiVars
    /\ UNCHANGED coreVars
    /\ UNCHANGED <<boot, gameVars>>

WorldEndFrame ==
    /\ pc = "world"
    /\ Renderer_EndFrame
    /\ pc' = "idle"
    /\ UNCHANGED <<draws_left, nkVars, nk_last, deviceDepth, slot_at_begin>>
    /\ UNCHANGED uiVars
    /\ UNCHANGED coreVars
    /\ UNCHANGED <<boot, gameVars>>

NextWorld ==
    \/ WorldBeginFrame
    \/ WorldDrawSprites
    \/ WorldDrawLine
    \/ WorldDrawGeometry
    \/ WorldEndFrame
    \/ DeviceComplete

SpecWorld == Init /\ [][NextWorld]_vars

(***************************************************************************)
(* A caller of the renderer and UI interface that is free in the order of  *)
(* its calls: Renderer_BeginFrame, Renderer_EndFrame, Renderer_SetVSync,   *)
(* UI_FillRect, UI_Text, UI_Flush                                          *)
(***************************************************************************)
\* The call just made, the one before it, and the device calls it recorded
Called(call, ops) == [NoCall EXCEPT !.call = call, !.prev = ui_last.call, !.ops = ops]

\* geometry_ensure_capacity(6) finds room: the vertex array holds
\* UI_GEOMETRY_INITIAL_CAPACITY = 4096 vertices after UI_Init and at most
\* MaxRects rectangles are batched, so g_geometry.capacity stays as it is
UI_FillRect ==
    /\ g_geometry_count' = g_geometry_count + 6
    /\ UNCHANGED g_text

UI_Text(text) ==
    /\ g_text' = AppendSequences(g_text, text)
    /\ UNCHANGED g_geometry_count

\* A UI_Flush that leaves the batches as they were.
UI_Flush_keeps_batches ==
    LET opsG  == IF g_geometry_count > 0
                 THEN FlushUIGeometryOps(render_pass, g_geometry_count) ELSE <<>>
        passG == IF g_geometry_count > 0
                 THEN PassAfterFlushUI(render_pass, g_geometry_count) ELSE render_pass
        opsT  == IF g_text.vertex_count > 0
                 THEN FlushUITextOps(passG, g_text.vertex_count, IndexCounts(g_text.atlases))
                 ELSE <<>>
        passT == IF g_text.vertex_count > 0
                 THEN PassAfterFlushUI(passG, g_text.vertex_count) ELSE passG
    IN  /\ dev_log' = dev_log \o opsG \o opsT
        /\ render_pass' = passT
        /\ UNCHANGED <<g_geometry_count, g_text>>
        /\ UNCHANGED <<cmd_buffer, swapchain_texture, cmd_nk_slot, inflight, begin_result>>

\* UI_Flush(): each batch that holds something goes to the renderer and is
\* emptied, whatever the renderer did with it
UI_Flush ==
    LET opsG  == IF g_geometry_count > 0
                 THEN FlushUIGeometryOps(render_pass, g_geometry_count) ELSE <<>>
        passG == IF g_geometry_count > 0
                 THEN PassAfterFlushUI(render_pass, g_geometry_count) ELSE render_pass
        opsT  == IF g_text.vertex_count > 0
                 THEN FlushUITextOps(passG, g_text.vertex_count, IndexCounts(g_text.atlases))
                 ELSE <<>>
        passT == IF g_text.vertex_count > 0
                 THEN PassAfterFlushUI(passG, g_text.vertex_count) ELSE passG
    IN  /\ dev_log' = dev_log \o opsG \o opsT
        /\ render_pass' = passT
        /\ g_geometry_count' = 0
        /\ g_text' = IF g_text.vertex_count > 0
                     THEN [g_text EXCEPT !.vertex_count = 0, !.index_count = 0,
                                         !.atlases = <<>>, !.index_runs = <<>>]
                     ELSE g_text
        /\ UNCHANGED <<cmd_buffer, swapchain_texture, cmd_nk_slot, inflight, begin_result>>

\* Renderer_Init leaves the frames the device allows in flight at the SDL
\* default of 2
InitApi == Init /\ deviceDepth = NK_SDL_GPU_FRAMES_IN_FLIGHT - 1

ApiBeginFrame ==
    /\ \E outcome \in BeginOutcomes : Renderer_BeginFrame(outcome)
    /\ draws_left' = MaxFlushesPerFrame
    /\ ui_last' = Called("begin", Len(dev_log'))
    /\ UNCHANGED <<pc, slot_at_begin, nkVars, nk_last, deviceDepth, g_geometry_count,
                   g_text, batched_atlases, batched_texts>>
    /\ UNCHANGED coreVars
    /\ UNCHANGED <<boot, gameVars>>

ApiEndFrame ==
    /\ Renderer_EndFrame
    /\ ui_last' = Called("end", Len(dev_log') - Len(dev_log))
    /\ UNCHANGED <<engineVars, nkVars, nk_last, deviceDepth, g_geometry_count, g_text,
                   batched_atlases, batched_texts>>
    /\ UNCHANGED coreVars
    /\ UNCHANGED <<boot, gameVars>>

ApiSetVSync ==
    /\ Renderer_SetPresentMode
    /\ ui_last' = Called("vsync", Len(dev_log') - Len(dev_log))
    /\ UNCHANGED <<engineVars, nkVars, nk_last, deviceDepth, g_geometry_count, g_text,
                   batched_atlases, batched_texts>>
    /\ UNCHANGED coreVars
    /\ UNCHANGED <<boot, gameVars>>

ApiFillRect ==
    /\ g_geometry_count < 6 * MaxRects
    /\ UI_FillRect
    /\ ui_last' = Called("fill", 0)
    /\ UNCHANGED <<rendererVars, engineVars, nkVars, nk_last, cmd_nk_slot, inflight,
                   deviceDepth, dev_log, begin_result, batched_atlases, batched_texts>>
    /\ UNCHANGED coreVars
    /\ UNCHANGED <<boot, gameVars>>

ApiText ==
    /\ batched_texts < MaxTexts
    /\ \E text \in TextInputs :
          /\ UI_Text(text)
          /\ batched_atlases' = batched_atlases \cup AtlasesOf(text)
    /\ batched_texts' = batched_texts + 1
    /\ ui_last' = Called("text", 0)
    /\ UNCHANGED <<rendererVars, engineVars, nkVars, nk_last, cmd_nk_slot, inflight,
                   deviceDepth, dev_log, begin_result>>
    /\ UNCHANGED coreVars
    /\ UNCHANGED <<boot, gameVars>>

ApiFlush ==
    /\ draws_left > 0
    /\ UI_Flush
    /\ draws_left' = draws_left - 1
    /\ batched_atlases' = {}
    /\ batched_texts' = 0
    /\ ui_last' = [call    |-> "flush",
                   prev    |-> ui_last.call,
                   ops     |-> Len(dev_log') - Len(dev_log),
                   target  |-> (cmd_buffer # NULL /\ swapchain_texture),
                   k       |-> Cardinality(batched_atlases),
                   texts   |-> batched_texts,
                   ranges  |-> Len(g_text.atlases),
                   indices |-> g_text.index_count,
                   draws   |-> Count(dev_log', "draw_ui_text")
                                 - Count(dev_log, "draw_ui_text")]
    /\ UNCHANGED <<pc, slot_at_begin, nkVars, nk_last, deviceDepth>>
    /\ UNCHANGED coreVars
    /\ UNCHANGED <<boot, gameVars>>

NextApi ==
    \/ ApiBeginFrame
    \/ ApiEndFrame
    \/ ApiSetVSync
    \/ ApiFillRect
    \/ ApiText
    \/ ApiFlush
    \/ DeviceComplete

SpecApi == InitApi /\ [][NextApi]_vars

(***************************************************************************)
(* The same caller batching long texts: Renderer_BeginFrame, UI_Text,      *)
(* UI_Flush, Renderer_EndFrame                                             *)
(***************************************************************************)
ApiLongText ==
    /\ batched_texts < MaxTexts
    /\ \E text \in LongTextInputs :
          /\ UI_Text(text)
          /\ batched_atlases' = batched_atlases \cup AtlasesOf(text)
    /\ batched_texts' = batched_texts + 1
    /\ ui_last' = Called("text", 0)
    /\ UNCHANGED <<rendererVars, engineVars, nkVars, nk_last, cmd_nk_slot, inflight,
                   deviceDepth, dev_log, begin_result>>
    /\ UNCHANGED coreVars
    /\ UNCHANGED <<boot, gameVars>>

NextText ==
    \/ ApiBeginFrame
    \/ ApiLongText
    \/ ApiFlush
    \/ ApiEndFrame
    \/ DeviceComplete

SpecText == InitApi /\ [][NextText]_vars

(***************************************************************************)
(* The streaming renderer: UploadStream allocator, sprite queue and frame  *)
(* statistics behind Renderer_DrawSprites and Renderer_GetFrameStats       *)
(***************************************************************************)
framesInFlight == 3
\* bytes of one sprite instance in the instance stream
InstanceBytes == 8

AlignUp(value, align) == ((value + align - 1) \div align) * align

\* beginFrame(slotIndex)
beginFrame(slotIndex) ==
    [slotBaseOffset |-> slotIndex * SlotSizeBytes,
     writeCursor    |-> slotIndex * SlotSizeBytes,
     mapped         |-> TRUE]

\* An allocate without the slot bound test.
AllocateFits_always(stream, size, align) == TRUE

\* allocate(size, align): the cursor rounded up to align is the offset; the
\* allocation fails if offset + size exceeds the slot bound
AllocateFits(stream, size, align) ==
    AlignUp(stream.writeCursor, align) + size <= stream.slotBaseOffset + SlotSizeBytes

allocate(stream, size, align) ==
    IF AllocateFits(stream, size, align)
    THEN [stream EXCEPT !.writeCursor = AlignUp(stream.writeCursor, align) + size]
    ELSE stream

\* endFrame(): the staging memory is unmapped for the copy
endFrame(stream) == [stream EXCEPT !.mapped = FALSE]

Allocated(stream, size, align) ==
    [ok |-> AllocateFits(stream, size, align), size |-> size, align |-> align,
     offset |-> AlignUp(stream.writeCursor, align),
     cursor_before |-> stream.writeCursor, called |-> TRUE]

\* A batching rule that does not compare the textures.
Mergeable_ignores_texture(last, batch) ==
    /\ last.uniform = batch.uniform
    /\ last.first + last.count = batch.first

\* The sprite batching rule: the new batch merges into the last entry if
\* texture, uniform snapshot and instance-range contiguity all match
Mergeable(last, batch) ==
    /\ last.texture = batch.texture
    /\ last.uniform = batch.uniform
    /\ last.first + last.count = batch.first

Merges(queue, batch) == queue # <<>> /\ Mergeable(queue[Len(queue)], batch)

\* The queue after the batch: merged in place, pushed, or dropped when full
QueueSprite(queue, batch) ==
    IF Merges(queue, batch)
    THEN [queue EXCEPT ![Len(queue)].count = @ + batch.count]
    ELSE IF Len(queue) < MaxQueueEntries THEN Append(queue, batch)
    ELSE queue

\* A command count that counts merged draws too.
CmdCountAfter_every_draw(count, queue, batch) == count + 1

\* The command count after a draw: one more for a pushed entry
CmdCountAfter(count, queue, batch) ==
    IF ~Merges(queue, batch) /\ Len(queue) < MaxQueueEntries THEN count + 1 ELSE count

legacyVars == <<cmd_buffer, render_pass, swapchain_texture, pc, draws_left,
                frame_slot, stream_capacity_warned, cmd_nk_slot, inflight,
                deviceDepth, dev_log, begin_result, nk_last, nk_upload, slot_history,
                slot_at_begin, g_geometry_count, g_text, batched_atlases,
                batched_texts, ui_last, boot, gameVars>>

CoreBeginFrame ==
    /\ fc_state = "Idle"
    /\ fc_state' = "Recording"
    /\ slot_index' = (slot_index + 1) % framesInFlight
    /\ upload_stream' = beginFrame(slot_index')
    /\ sprite_queue' = <<>>
    /\ cmdCount' = 0
    /\ calls_left' = MaxCoreCalls
    /\ submitted' = <<>>
    /\ dropped' = FALSE
    /\ alloc_last' = NoAlloc
    /\ UNCHANGED legacyVars

\* write(src, size, align) by a caller other than the sprite path
CoreWrite ==
    /\ fc_state = "Recording"
    /\ calls_left > 0
    /\ \E size \in {0, InstanceBytes, SlotSizeBytes + 1}, align \in {1, 16} :
          /\ upload_stream' = allocate(upload_stream, size, align)
          /\ alloc_last' = Allocated(upload_stream, size, align)
          /\ dropped' = (dropped \/ ~AllocateFits(upload_stream, size, align))
    /\ calls_left' = calls_left - 1
    /\ UNCHANGED <<fc_state, slot_index, sprite_queue, cmdCount, submitted>>
    /\ UNCHANGED legacyVars

\* Renderer_DrawSprites(texture, instances, count) with the uniform snapshot
\* current at the call: the instances go to the stream, the batch to the queue
CoreDrawSprites ==
    /\ fc_state = "Recording"
    /\ calls_left > 0
    /\ \E texture \in {"texA", "texB"}, uniform \in {0, 1}, count \in {1, 2} :
          LET size  == count * InstanceBytes
              fits  == AllocateFits(upload_stream, size, InstanceBytes)
              first == (AlignUp(upload_stream.writeCursor, InstanceBytes)
                          - upload_stream.slotBaseOffset) \div InstanceBytes
              batch == [texture |-> texture, uniform |-> uniform,
                        first |-> first, count |-> count]
              full  == ~Merges(sprite_queue, batch)
                          /\ Len(sprite_queue) >= MaxQueueEntries
          IN  /\ upload_stream' = allocate(upload_stream, size, InstanceBytes)
              /\ alloc_last' = Allocated(upload_stream, size, InstanceBytes)
              /\ IF fits THEN
                    /\ sprite_queue' = QueueSprite(sprite_queue, batch)
                    /\ cmdCount' = CmdCountAfter(cmdCount, sprite_queue, batch)
                    /\ submitted' = IF full THEN submitted ELSE Append(submitted, batch)
                    /\ dropped' = (dropped \/ full)
                 ELSE
                    /\ dropped' = TRUE
                    /\ UNCHANGED <<sprite_queue, cmdCount, submitted>>
    /\ calls_left' = calls_left - 1
    /\ UNCHANGED <<fc_state, slot_index>>
    /\ UNCHANGED legacyVars

CoreEndFrame ==
    /\ fc_state = "Recording"
    /\ fc_state' = "Idle"
    /\ upload_stream' = endFrame(upload_stream)
    /\ alloc_last' = NoAlloc
    /\ UNCHANGED <<slot_index, sprite_queue, cmdCount, calls_left, submitted, dropped>>
    /\ UNCHANGED legacyVars

NextCore ==
    \/ CoreBeginFrame
    \/ CoreWrite
    \/ CoreDrawSprites
    \/ CoreEndFrame

SpecCore == InitApi /\ [][NextCore]_vars

(***************************************************************************)
(* Construction: miso_create step by step                                  *)
(***************************************************************************)
InitCreate ==
    /\ FrameInit /\ deviceDepth = NK_SDL_GPU_FRAMES_IN_FLIGHT - 1 /\ boot = NoEngine
    /\ miso_engine = miso_create_engine(0, 0)

NextCreate ==
    \/ miso_create_enter
    \/ miso_create_SDL_Init
    \/ miso_create_SDL_CreateWindow
    \/ Renderer_Init_device
    \/ Renderer_Init_claim
    \/ Renderer_Init_swapchain
    \/ Renderer_Init_sprite_pipeline
    \/ Renderer_Init_resources
    \/ Renderer_Init_text
    \/ Renderer_Init_ui_pipelines
    \/ miso_create_finish
    \/ miso_destroy

SpecCreate == InitCreate /\ [][NextCreate]_vars

(***************************************************************************)
(* Placing and removing buildings on one world                             *)
(***************************************************************************)
NextBuildings ==
    \/ \E tx \in -1..(MapWidth - 1), ty \in 0..(MapHeight - 1),
          footprint_w \in 0..2, footprint_h \in 1..2,
          realloc_ok \in (IF Len(world.buildings) >= world.building_capacity
                          THEN BOOLEAN ELSE {TRUE}) :
          miso_building_place(tx, ty, footprint_w, footprint_h, realloc_ok)
    \/ \E building_id \in 0..(MaxBuildings + 1) : miso_building_remove(building_id)

SpecBuildings == InitApi /\ [][NextBuildings]_vars

(***************************************************************************)
(* Adding and removing components of one ECS sparse set                    *)
(***************************************************************************)
\* ss_add and ss_remove; added records the value an add stored for e
NextEcs ==
    \/ \E e \in 0..(ENTITY_MAX - 1), component \in 1..2 :
          /\ ecs' = [set |-> ecs_ss_add(ecs.set, e, component),
                     added |-> IF ecs_ss_has(ecs.set, e) THEN ecs.added
                               ELSE [ecs.added EXCEPT ![e] = component]]
          /\ UNCHANGED <<frameVars, boot, world, sset, miso_engine, events>>
    \/ \E e \in 0..(ENTITY_MAX - 1) :
          /\ ecs' = [set |-> ecs_ss_remove(ecs.set, e),
                     added |-> [ecs.added EXCEPT ![e] = NULL]]
          /\ UNCHANGED <<frameVars, boot, world, sset, miso_engine, events>>

SpecEcs == InitApi /\ [][NextEcs]_vars

(***************************************************************************)
(* Adding and removing components of one top-level sparse set              *)
(***************************************************************************)
\* ss_add and ss_remove of sparse_set.c; added records the value an add
\* stored for e, last the call that was made
NextSparse ==
    \/ \E e \in 0..(ENTITY_MAX - 1), component \in 1..2 :
          /\ sset' = [set |-> ss_add(sset.set, e, component),
                      added |-> IF ss_has(sset.set, e) THEN sset.added
                                ELSE [sset.added EXCEPT ![e] = component],
                      last |-> "ss_add"]
          /\ UNCHANGED <<frameVars, boot, world, ecs, miso_engine, events>>
    \/ \E e \in 0..(ENTITY_MAX - 1) :
          /\ sset' = [set |-> ss_remove(sset.set, e),
                      added |-> [sset.added EXCEPT ![e] = NULL],
                      last |-> "ss_remove"]
          /\ UNCHANGED <<frameVars, boot, world, ecs, miso_engine, events>>

SpecSparse == InitApi /\ [][NextSparse]_vars

(***************************************************************************)
(* The simulation clock of an engine created with one of several configs   *)
(***************************************************************************)
InitSim ==
    /\ FrameInit /\ deviceDepth = NK_SDL_GPU_FRAMES_IN_FLIGHT - 1 /\ boot = CreatedEngine
    /\ \E sim_tick_hz \in {0, 5, 10}, max_sim_steps_per_frame \in {0, 1, 2} :
          miso_engine = miso_create_engine(sim_tick_hz, max_sim_steps_per_frame)

NextSim ==
    \/ \E delta \in 0..MaxDelta : miso_begin_frame(delta)
    \/ miso_run_simulation_ticks
    \/ miso__engine_request_quit

SpecSim == InitSim /\ [][NextSim]_vars

(***************************************************************************)
(* Events queued by the platform and polled by the game                    *)
(***************************************************************************)
NextEvents ==
    \/ \E type \in {"SDL_EVENT_QUIT", "SDL_EVENT_KEY_DOWN",
                    "SDL_EVENT_WINDOW_FOCUS_GAINED"} : SDL_PushEvent(type)
    \/ miso_poll_event

SpecEvents == InitApi /\ [][NextEvents]_vars

(***************************************************************************)
(* Claims checked under Spec                                               *)
(***************************************************************************)
FailedBegin == begin_result \in {"no_cmd", "acquire_failed", "no_surface"}

InFlightSlots == {inflight[i] : i \in 1..Len(inflight)} \ {NoSlot}

\* C1: with the stream cut into N = NK_SDL_GPU_FRAMES_IN_FLIGHT slots and the
\* slot advancing round-robin, the slot the CPU writes while recording a frame
\* is never a slot a frame still in flight on the device reads, and a slot is
\* reused only after the N-1 other slots were used, provided the device keeps
\* at most N frames in flight.
C1_WrittenSlotNotInFlight ==
    /\ (deviceDepth <= NK_SDL_GPU_FRAMES_IN_FLIGHT /\ cmd_buffer # NULL
           /\ cmd_nk_slot # NoSlot)
          => cmd_nk_slot \notin InFlightSlots
    /\ \A i, j \in 1..Len(slot_history) :
          (i < j /\ slot_history[i] = slot_history[j])
             => j - i >= NK_SDL_GPU_FRAMES_IN_FLIGHT

\* The CPU has written a slot while the device, at its full depth of N, still
\* reads the N-1 other slots.
C1_Witness ==
    /\ deviceDepth = NK_SDL_GPU_FRAMES_IN_FLIGHT
    /\ cmd_buffer # NULL
    /\ cmd_nk_slot # NoSlot
    /\ Cardinality(InFlightSlots) = NK_SDL_GPU_FRAMES_IN_FLIGHT - 1

\* Without the premise of C1 the written slot can still be in flight.
DeeperQueueIsUnsafe ==
    (cmd_buffer # NULL /\ cmd_nk_slot # NoSlot) => cmd_nk_slot \notin InFlightSlots

\* C2: every range the stream hands out starts at a multiple of the stream
\* alignment, lies inside the slot of the frame (slot base <= offset and
\* offset + size <= slot base + slot size), and so touches no slot that
\* belongs to another frame.
C2_UploadInsideSlot ==
    nk_upload # NoUpload =>
        LET vbase == nk_upload.slot * vertex_slot_size
            ibase == nk_upload.slot * index_slot_size
        IN  /\ nk_upload.voff % NK_SDL_GPU_STREAM_ALIGN = 0
            /\ nk_upload.ioff % NK_SDL_GPU_STREAM_ALIGN = 0
            /\ vbase <= nk_upload.voff
            /\ nk_upload.voff + nk_upload.vsize <= vbase + vertex_slot_size
            /\ ibase <= nk_upload.ioff
            /\ nk_upload.ioff + nk_upload.isize <= ibase + index_slot_size
            /\ nk_upload.voff + nk_upload.vsize <= vertex_total_size
            /\ nk_upload.ioff + nk_upload.isize <= index_total_size
            /\ \A s \in 0..(NK_SDL_GPU_FRAMES_IN_FLIGHT - 1) :
                  s # nk_upload.slot =>
                     /\ (nk_upload.voff + nk_upload.vsize <= s * vertex_slot_size
                           \/ (s + 1) * vertex_slot_size <= nk_upload.voff)
                     /\ (nk_upload.ioff + nk_upload.isize <= s * index_slot_size
                           \/ (s + 1) * index_slot_size <= nk_upload.ioff)

\* A payload that fills the last slot to its last byte was uploaded.
C2_Witness ==
    /\ nk_upload # NoUpload
    /\ nk_upload.slot = NK_SDL_GPU_FRAMES_IN_FLIGHT - 1
    /\ nk_upload.vsize = vertex_slot_size
    /\ nk_upload.isize = index_slot_size

RecordedSince(n) == {dev_log[i] : i \in (n + 1)..Len(dev_log)}

\* C5: a debug UI payload larger than a stream slot is dropped: the stream
\* position (slot and upload regions) is left as it was, the drop is flagged,
\* and no copy or draw is recorded for it; a later payload of the same frame
\* that fits is uploaded and drawn as usual.
C5_OverflowDropsDraw ==
    /\ nk_last.result = "dropped" =>
          /\ stream_capacity_warned
          /\ frame_slot = nk_last.slot_before
          /\ nk_upload = nk_last.upload_before
          /\ RecordedSince(nk_last.log_before) \cap ({"copy"} \cup DrawOps) = {}
    /\ (nk_last.nonempty /\ nk_last.target /\ ~nk_last.within)
          => nk_last.result = "dropped"
    /\ (nk_last.nonempty /\ nk_last.target /\ nk_last.within /\ nk_last.mapped)
          => /\ nk_last.result = "uploaded"
             /\ nk_upload.slot = frame_slot
             /\ {"copy", "draw_indexed_nk"} \subseteq RecordedSince(nk_last.log_before)

\* In one frame a payload was dropped and the next one, which fits, went
\* through.
C5_Witness ==
    /\ nk_last.result = "uploaded"
    /\ nk_last.prev = "dropped"
    /\ nk_last.warned_before

\* C6: a flush invoked a second time without an intervening BeginFrame does no
\* device work: of two consecutive Renderer_EndFrame calls, or two consecutive
\* UI_Flush calls, the second records nothing, and between two BeginFrames the
\* command buffer is submitted at most once. The copy and the draws are
\* performed once.
C6_SecondFlushDoesNothing ==
    /\ (ui_last.call = "end" /\ ui_last.prev = "end") => ui_last.ops = 0
    /\ (ui_last.call = "flush" /\ ui_last.prev = "flush") => ui_last.ops = 0
    /\ Count(dev_log, "submit") + Count(dev_log, "submit_empty") <= 1

\* A frame drew a rectangle, was ended, and was ended once more: one copy, one
\* draw, one submission.
C6_Witness ==
    /\ ui_last.call = "end" /\ ui_last.prev = "end"
    /\ Count(dev_log, "draw_ui_geometry") = 1
    /\ Count(dev_log, "copy") = 1
    /\ Count(dev_log, "submit") = 1

\* UI_Flush was never called twice in a row with a rectangle batched (this is
\* false: the case of two consecutive flushes is reached).
NoSecondUIFlush ==
    ~(ui_last.call = "flush" /\ ui_last.prev = "flush"
        /\ Count(dev_log, "draw_ui_geometry") = 1)

C3_WriteCursorInSlot ==
    /\ upload_stream.slotBaseOffset <= upload_stream.writeCursor
    /\ upload_stream.writeCursor <= upload_stream.slotBaseOffset + SlotSizeBytes
    /\ upload_stream.slotBaseOffset + SlotSizeBytes <= SlotSizeBytes * framesInFlight
    /\ fc_state = "Recording" => upload_stream.slotBaseOffset = slot_index * SlotSizeBytes

\* In the last slot an allocation was refused after others had moved the
\* cursor.
C3_Witness ==
    /\ slot_index = framesInFlight - 1
    /\ alloc_last.called /\ ~alloc_last.ok
    /\ upload_stream.writeCursor > upload_stream.slotBaseOffset

\* The textures, uniforms and instance counts of a sequence of batches
Shape(batches) ==
    [i \in 1..Len(batches) |-> <<batches[i].texture, batches[i].uniform, batches[i].count>>]

DistinctBatches(batches) ==
    Cardinality({i \in 1..Len(batches) :
        \/ i = 1
        \/ batches[i - 1].texture # batches[i].texture
        \/ batches[i - 1].uniform # batches[i].uniform
        \/ batches[i - 1].first + batches[i - 1].count # batches[i].first})

\* C8: for the draws of one frame that stay within the queue capacity and the
\* stream capacity, the cmdCount of the frame statistics equals the number of
\* logically distinct (non-mergeable) batches submitted to the queue.
C8_CmdCountIsDistinctBatches ==
    ~dropped => /\ cmdCount = DistinctBatches(submitted)
                /\ cmdCount = Len(sprite_queue)

\* Four draws, two of them merged: a count of 2, with nothing dropped.
C8_Witness ==
    /\ ~dropped
    /\ Len(submitted) = 4
    /\ cmdCount = 2

RecordingOps == {"pass_begin_clear", "pass_begin_load", "pass_end", "copy", "submit"}
                    \cup DrawOps

\* C10 as amended: when BeginFrame gets no presentation surface it submits the
\* empty command buffer; when it gets no command buffer there is nothing to
\* submit and it submits nothing. Either way the controller holds no command
\* buffer and no render pass, and until the next BeginFrame no pass, copy or
\* draw reaches the device.
C10_FailedBeginSkipsFrame ==
    FailedBegin =>
        /\ cmd_buffer = NULL
        /\ render_pass = NULL
        /\ \A i \in 1..Len(dev_log) : dev_log[i] \notin RecordingOps
        /\ begin_result = "no_cmd" => dev_log = <<>>
        /\ begin_result # "no_cmd" => dev_log = <<"submit_empty">>

\* A frame without a surface ran to its end: the hooks tried to draw and to
\* render the debug UI, and only the empty submission reached the device.
C10_Witness ==
    /\ begin_result = "no_surface"
    /\ pc = "idle"
    /\ draws_left = 0
    /\ dev_log = <<"submit_empty">>

\* C10 as stated: a BeginFrame that fails to acquire the recording context or
\* the presentation surface submits an empty command buffer, opens no render
\* pass and lets no draw reach the device.
C10_FailedBeginSubmitsEmpty ==
    FailedBegin =>
        /\ Count(dev_log, "submit_empty") = 1
        /\ cmd_buffer = NULL
        /\ render_pass = NULL
        /\ \A i \in 1..Len(dev_log) : dev_log[i] \notin RecordingOps

(***************************************************************************)
(* C11: Renderer_BeginFrame returns a boolean to its caller, false when    *)
(* and only when the presentation surface is unavailable for that frame.   *)
(***************************************************************************)
C11_BeginFrameReturnsBool ==
    begin_result # "none" =>
        LET r == Renderer_BeginFrame_return(begin_result)
        IN  /\ r \in {"true", "false"}
            /\ r = "false" <=> begin_result \in {"acquire_failed", "no_surface"}

(***************************************************************************)
(* C12: while a frame is being recorded, a draw-submission call only       *)
(* appends to a queue or stream: it records no device work, which happens  *)
(* at the flush of Renderer_EndFrame.                                      *)
(***************************************************************************)
C12_DrawCallsRecordNoDeviceWork ==
    [][(pc = "world" /\ pc' = "world") => dev_log' = dev_log]_vars

(***************************************************************************)
(* C13: every frame that was begun with a surface and submitted holds      *)
(* exactly two render passes, the world pass and the UI pass.              *)
(***************************************************************************)
RenderPassesBegun ==
    Count(dev_log, "pass_begin_clear") + Count(dev_log, "pass_begin_load")

C13_TwoRenderPassesPerFrame ==
    (pc = "idle" /\ begin_result = "ok" /\ Count(dev_log, "submit") = 1)
        => RenderPassesBegun = 2

(***************************************************************************)
(* C14: the uploads of a frame happen in one copy pass that precedes the   *)
(* frame's first draw, and no render pass is ended and begun again around  *)
(* a copy.                                                                 *)
(***************************************************************************)
C14_OneCopyPassBeforeDraws ==
    /\ Count(dev_log, "copy") <= 1
    /\ \A i, j \in 1..Len(dev_log) :
          (dev_log[i] \in DrawOps /\ dev_log[j] = "copy") => j < i
    /\ \A i \in 1..Len(dev_log) :
          (dev_log[i] = "copy" /\ i > 1 /\ i < Len(dev_log))
              => ~(dev_log[i - 1] = "pass_end" /\ dev_log[i + 1] = "pass_begin_load")

(***************************************************************************)
(* C20: the world pass draws all sprites, then all world geometry, then    *)
(* all lines, whatever the order of the calls was.                         *)
(***************************************************************************)
C20_SpritesThenGeometryThenLines ==
    LET rank(op) == IF op = "draw_sprites" THEN 1
                    ELSE IF op = "draw_geometry" THEN 2 ELSE 3
    IN  \A i, j \in 1..Len(dev_log) :
            (/\ i < j
             /\ dev_log[i] \in {"draw_sprites", "draw_geometry", "draw_lines"}
             /\ dev_log[j] \in {"draw_sprites", "draw_geometry", "draw_lines"})
                => rank(dev_log[i]) <= rank(dev_log[j])

(***************************************************************************)
(* C15: the copy of a frame's stream data covers exactly the bytes written *)
(* into the frame's slot, from the slot's base offset to the end of what   *)
(* was written: not the whole slot, not the whole buffer, and no byte of   *)
(* another slot.                                                           *)
(***************************************************************************)
C15_CopiesExactlyUsedRange ==
    nk_upload # NoUpload =>
        /\ nk_upload.voff = nk_upload.slot * vertex_slot_size
        /\ nk_upload.ioff = nk_upload.slot * index_slot_size
        /\ nk_upload.vsize = nk_upload.vused
        /\ nk_upload.isize = nk_upload.iused
        /\ nk_upload.vused < vertex_slot_size => nk_upload.vsize < vertex_slot_size
        /\ nk_upload.iused < index_slot_size => nk_upload.isize < index_slot_size

\* A frame wrote one vertex and a full slot of indices into a slot that is
\* not the first one, and uploaded them.
C15_Witness ==
    /\ nk_upload # NoUpload
    /\ nk_upload.slot > 0
    /\ nk_upload.vused = SizeofNkVertex
    /\ nk_upload.iused = index_slot_size
    /\ "copy" \in {dev_log[i] : i \in 1..Len(dev_log)}

(***************************************************************************)
(* C16: a queue has a fixed maximum size; a command that does not fit is   *)
(* dropped, the entries already queued stay as they are, and no queue is   *)
(* reallocated while a frame is being recorded.                            *)
(***************************************************************************)
C16_FixedCapacityNoRealloc ==
    [][cmd_buffer # NULL =>
          /\ g_text'.vertex_capacity = g_text.vertex_capacity
          /\ g_text'.index_capacity = g_text.index_capacity
          /\ g_text'.vertex_count <= UI_TEXT_INITIAL_CAPACITY
          /\ g_text'.index_count <= UI_TEXT_INITIAL_CAPACITY]_vars

(***************************************************************************)
(* C17: when the setup of SDL, the window, the GPU device, the window      *)
(* claim or the swapchain fails, miso_create returns an error code and     *)
(* hands no engine to its caller; an engine is handed out only with        *)
(* MISO_OK, and then window, device, swapchain and sprite pipeline exist.  *)
(***************************************************************************)
C17_FailedInitReturnsNoEngine ==
    boot.pc = "returned" =>
        /\ boot.failed \in {"sdl_init", "window", "device", "claim", "swapchain"}
              => /\ boot.result \in {"MISO_ERR_INIT", "MISO_ERR_GPU"}
                 /\ boot.out_engine = "null"
                 /\ ~boot.engine /\ ~boot.window /\ ~boot.sdl
        /\ boot.out_engine = "engine" <=> boot.result = "MISO_OK"
        /\ boot.out_engine = "engine"
              => /\ boot.engine /\ boot.sdl /\ boot.window /\ boot.ui
                 /\ boot.gpu_device /\ boot.claimed
                 /\ boot.present_mode \in {"mailbox", "vsync"}
                 /\ {"pipeline", "ttf", "text_engine"} \subseteq boot.made

\* The device was created and claimed the window, both swapchain settings
\* failed, and miso_create has returned.
C17_Witness ==
    /\ boot.pc = "returned"
    /\ boot.failed = "swapchain"
    /\ boot.gpu_device
    /\ boot.result = "MISO_ERR_GPU"

(***************************************************************************)
(* C18: under any sequence of BeginFrame, draw-submission and EndFrame     *)
(* calls a frame that is being recorded stays the frame being recorded     *)
(* until Renderer_EndFrame flushes it: the controller leaves Recording     *)
(* only through Flushing to Idle, and no frame is abandoned on the way.    *)
(***************************************************************************)
C18_RecordingEndsOnlyThroughFlush ==
    [][(cmd_buffer # NULL /\ ui_last'.call # "vsync") =>
          \/ cmd_buffer' = cmd_buffer
          \/ cmd_buffer' = NULL /\ ui_last'.call = "end"]_vars

(***************************************************************************)
(* C19: every Renderer_BeginFrame leaves the command queues empty, so that *)
(* nothing queued before it, in a frame that was skipped or never flushed, *)
(* can be drawn in the frame it begins.                                    *)
(***************************************************************************)
C19_BeginFrameResetsQueues ==
    [][ui_last'.call = "begin" =>
          /\ g_geometry_count' = 0
          /\ g_text'.vertex_count = 0
          /\ g_text'.index_count = 0
          /\ g_text'.atlases = <<>>]_vars

(***************************************************************************)
(* C21: what one UI_Flush records draws every UI-geometry command before   *)
(* any UI-text command, whatever the order of the UI_FillRect and UI_Text  *)
(* calls was, and binds the text vertex and index buffers once, before the *)
(* first of its per-atlas draws.                                           *)
(***************************************************************************)
C21_GeometryBeforeTextBoundOnce ==
    ui_last.call = "flush" =>
        LET ops == LastN(dev_log, ui_last.ops)
            at(op) == {i \in 1..Len(ops) : ops[i] = op}
        IN  /\ \A i \in at("draw_ui_geometry"), j \in at("draw_ui_text") : i < j
            /\ at("draw_ui_text") # {} => Cardinality(at("bind_ui_text_buffers")) = 1
            /\ \A i \in at("bind_ui_text_buffers"), j \in at("draw_ui_text") : i < j
            /\ \A i \in at("bind_ui_text_buffers"), j \in at("draw_ui_geometry") : j < i

\* A text of two atlases was queued before a rectangle, and both were flushed
\* in a frame that is being recorded.
C21_Witness ==
    /\ ui_last.call = "flush" /\ ui_last.target
    /\ ui_last.prev = "fill"
    /\ ui_last.draws >= 2
    /\ Count(LastN(dev_log, ui_last.ops), "draw_ui_geometry") = 1

(***************************************************************************)
(* C22: between two flushes every atlas range [start_index, start_index +  *)
(* index_count) holds only indices of glyphs of its own atlas, and no two  *)
(* atlas ranges overlap.                                                   *)
(***************************************************************************)
C22_AtlasRangesDisjointAndPure ==
    LET ranges == g_text.atlases
        runs == g_text.index_runs
        meets(a, n, b, k) == n > 0 /\ k > 0 /\ a < b + k /\ b < a + n
    IN  /\ \A i \in 1..Len(ranges), w \in 1..Len(runs) :
              meets(ranges[i].start_index, ranges[i].index_count,
                    runs[w].start, runs[w].count)
                  => runs[w].atlas = ranges[i].atlas
        /\ \A i, j \in 1..Len(ranges) :
              i # j => ~meets(ranges[i].start_index, ranges[i].index_count,
                              ranges[j].start_index, ranges[j].index_count)

(***************************************************************************)
(* C23: a payload that overflows the stream slot is dropped; of a run of   *)
(* consecutive overflows only the first logs the warning, and the warning  *)
(* is armed again only by a payload that fits the slot.                    *)
(***************************************************************************)
C23_OneWarningPerOverflowRun ==
    /\ (nk_last.result = "dropped" /\ nk_last.prev = "dropped") => ~nk_last.warning
    /\ (nk_last.result = "dropped" /\ nk_last.prev \in {"uploaded", "map_failed"})
          => nk_last.warning
    /\ nk_last.warning => (nk_last.result = "dropped" /\ stream_capacity_warned)
    /\ (nk_last.warned_before /\ ~stream_capacity_warned)
          => (nk_last.nonempty /\ nk_last.target /\ nk_last.within)
    /\ nk_last.result = "dropped"
          => /\ frame_slot = nk_last.slot_before
             /\ "draw_indexed_nk" \notin RecordedSince(nk_last.log_before)

\* Two payloads in a row overflowed in one frame: the second logged nothing.
C23_Witness ==
    /\ nk_last.result = "dropped"
    /\ nk_last.prev = "dropped"
    /\ nk_last.warned_before
    /\ ~nk_last.warning

(***************************************************************************)
(* C24: every command buffer that Renderer_BeginFrame acquired is          *)
(* submitted exactly once: the call that lets go of a held command buffer  *)
(* submits it, and a submission is always that of the held buffer.         *)
(***************************************************************************)
C24_EveryCommandBufferSubmittedOnce ==
    [][/\ (cmd_buffer # NULL /\ cmd_buffer' # cmd_buffer)
            => Count(dev_log', "submit") = Count(dev_log, "submit") + 1
       /\ Count(dev_log', "submit") > Count(dev_log, "submit")
            => /\ cmd_buffer # NULL /\ cmd_buffer' = NULL
               /\ Count(dev_log', "submit") = Count(dev_log, "submit") + 1]_vars

(***************************************************************************)
(* C25: whenever a render pass is held, the command buffer it was begun on *)
(* is the one still held, so a draw that passes its render_pass check      *)
(* records into a live command buffer.                                     *)
(***************************************************************************)
C25_RenderPassImpliesItsCommandBuffer ==
    render_pass # NULL => (cmd_buffer # NULL /\ render_pass = cmd_buffer)

\* C26: after any sequence of miso_building_place and miso_building_remove
\* a tile is occupied iff it lies in the footprint of exactly one active
\* building, the active footprints are in bounds and pairwise disjoint, and
\* a place that did not return MISO_OK changed neither the grid nor the
\* records.
C26_OccupancyMatchesActiveFootprints ==
    LET Active == {i \in 1..Len(world.buildings) : world.buildings[i].active}
        Covers(i, tx, ty) ==
            LET r == world.buildings[i]
            IN  /\ tx >= r.tx /\ tx < r.tx + r.footprint_w
                /\ ty >= r.ty /\ ty < r.ty + r.footprint_h
        Tiles == (0..(MapWidth - 1)) \X (0..(MapHeight - 1))
    IN  /\ \A t \in Tiles :
              world.occupied[t[2] * MapWidth + t[1]]
                  <=> Cardinality({i \in Active : Covers(i, t[1], t[2])}) = 1
        /\ \A i \in Active :
              LET r == world.buildings[i]
              IN  /\ r.footprint_w > 0 /\ r.footprint_h > 0
                  /\ r.tx >= 0 /\ r.ty >= 0
                  /\ r.tx + r.footprint_w <= MapWidth
                  /\ r.ty + r.footprint_h <= MapHeight
        /\ \A i, j \in Active :
              i # j => ~\E t \in Tiles : Covers(i, t[1], t[2]) /\ Covers(j, t[1], t[2])
        /\ (world.last.op = "place" /\ world.last.result # "MISO_OK")
              => ~world.last.changed

\* a world with an active and a removed building on which a place that
\* overlaps the active one has just been refused
C26_Witness ==
    /\ Len(world.buildings) = 2
    /\ \E i, j \in 1..2 : world.buildings[i].active /\ ~world.buildings[j].active
    /\ world.last.op = "place"
    /\ world.last.result = "MISO_ERR_INVALID_ARG"
    /\ \E i \in DOMAIN world.occupied : world.occupied[i]

\* C27: after any sequence of ss_add and ss_remove on the ECS sparse set,
\* sparse[dense_entities[i]] = i for every i < size, the entities in
\* dense_entities[0..size) are pairwise distinct and are exactly those ss_has
\* accepts, and ss_get(e) is the component value that was added for e.
C27_EcsSparseSetConsistent ==
    LET set == ecs.set
        Slots == 0..(set.size - 1)
    IN  /\ \A i \in Slots : set.sparse[set.dense_entities[i]] = i
        /\ \A i, j \in Slots : i # j => set.dense_entities[i] # set.dense_entities[j]
        /\ {set.dense_entities[i] : i \in Slots}
              = {e \in 0..(ENTITY_MAX - 1) : ecs_ss_has(set, e)}
        /\ \A e \in 0..(ENTITY_MAX - 1) :
              ecs_ss_has(set, e) => ecs_ss_get(set, e) = ecs.added[e]

\* two entities with different components are left after an entity in front
\* of them was removed, the arrays having grown once
C27_Witness ==
    /\ ecs.set.size = 2
    /\ ecs.set.capacity = 4
    /\ ecs_ss_has(ecs.set, 1) /\ ecs_ss_has(ecs.set, 2) /\ ~ecs_ss_has(ecs.set, 0)
    /\ ecs.set.sparse[2] = 0
    /\ ecs_ss_get(ecs.set, 1) # ecs_ss_get(ecs.set, 2)

\* C28: in the top-level sparse set, after ss_remove(e) every other entity
\* that was present still satisfies ss_has and ss_get returns its own
\* component, and no two present entities map to the same dense index or to
\* an index >= size.
C28_RemoveKeepsOtherEntities ==
    sset.last = "ss_remove" =>
        LET set == sset.set
            Present == {e \in 0..(ENTITY_MAX - 1) : sset.added[e] # NULL}
        IN  /\ \A e \in Present : ss_has(set, e) /\ ss_get(set, e) = sset.added[e]
            /\ \A e \in Present : set.sparse[e] < set.size
            /\ \A e, f \in Present : e # f => set.sparse[e] # set.sparse[f]

\* C29 (as stated): each call to miso_run_simulation_ticks runs exactly
\* min(floor(accumulator / fixed_step), max_sim_steps_per_frame) ticks, each
\* with dt = fixed_step = 1 / sim_tick_hz and each reducing the accumulator
\* by fixed_step; no tick runs while the accumulator is below fixed_step and
\* the accumulator is left non-negative.
C29_RunsMinOfDueAndMaxTicks ==
    LET last == miso_engine.last
        hz == miso_engine.config.sim_tick_hz
        fixed_step == PerfFrequency \div hz
        due == last.before \div fixed_step
        max_steps == miso_engine.config.max_sim_steps_per_frame
    IN  last.call = "miso_run_simulation_ticks" =>
            /\ Len(last.ticks) = (IF due < max_steps THEN due ELSE max_steps)
            /\ \A i \in 1..Len(last.ticks) :
                  /\ last.ticks[i].dt * hz = PerfFrequency
                  /\ last.ticks[i].accumulator = last.before - (i - 1) * fixed_step
                  /\ last.ticks[i].accumulator >= fixed_step
            /\ last.after = last.before - Len(last.ticks) * fixed_step
            /\ last.after >= 0

\* C29 (amended): the same for every call made while the engine is running;
\* a call made after quit was requested runs no tick and leaves the
\* accumulator as it was.
C29_RunsMinOfDueAndMaxTicksWhileRunning ==
    LET last == miso_engine.last
        hz == miso_engine.config.sim_tick_hz
        fixed_step == PerfFrequency \div hz
        due == last.before \div fixed_step
        max_steps == miso_engine.config.max_sim_steps_per_frame
    IN  last.call = "miso_run_simulation_ticks" =>
            IF last.running
            THEN /\ Len(last.ticks) = (IF due < max_steps THEN due ELSE max_steps)
                 /\ \A i \in 1..Len(last.ticks) :
                       /\ last.ticks[i].dt * hz = PerfFrequency
                       /\ last.ticks[i].accumulator = last.before - (i - 1) * fixed_step
                       /\ last.ticks[i].accumulator >= fixed_step
                 /\ last.after = last.before - Len(last.ticks) * fixed_step
                 /\ last.after >= 0
            ELSE last.ticks = <<>> /\ last.after = last.before

\* a call on a running engine stopped at max_sim_steps_per_frame with more
\* than one further step still in the accumulator
C29_Witness ==
    /\ miso_engine.last.call = "miso_run_simulation_ticks"
    /\ miso_engine.last.running
    /\ Len(miso_engine.last.ticks) = miso_engine.config.max_sim_steps_per_frame
    /\ Len(miso_engine.last.ticks) = 2
    /\ miso_engine.last.after
          >= 2 * (PerfFrequency \div miso_engine.config.sim_tick_hz)

\* C30: miso_poll_event returns false only when no event remains in the
\* platform event queue, so a caller looping while it returns true has
\* handled every pending event when the loop ends.
C30_PollFalseOnlyWhenQueueEmpty ==
    (events.last.called /\ ~events.last.returned) => events.last.remaining = 0

====
